---- MODULE Spec2Model ----
(***************************************************************************)
(* A model of the quiver whiteboard: the broadcast server                  *)
(* (src/server/server.js) and the browser client (src/client/quiver.js).   *)
(*                                                                         *)
(* JavaScript values are tagged records, so that a field of the wrong type *)
(* is a value the validators can be given:                                 *)
(*   [t |-> "number", n |-> 3]   a finite number                           *)
(*   [t |-> "nan"]               a number that is not finite               *)
(*   [t |-> "string", s |-> "red"], [t |-> "null"], [t |-> "undefined"]    *)
(*   [t |-> "object", o |-> f]   an object, f its own enumerable fields    *)
(*   [t |-> "array",  a |-> seq] an array                                  *)
(***************************************************************************)
EXTENDS Integers, Sequences, FiniteSets, TLC

VARIABLES
    channels,      \* Server.channels: channel name -> [participants, canvas]
    participants,  \* Server.participants: connection -> channel name
    rs,            \* server side ws.readyState of each connection
    alive,         \* ws.alive, the heartbeat flag
    inbox,         \* frames sent by the peer, not yet handled by the server
    outbox,        \* frames sent by the server, not yet handled by the client
    crs,           \* client side ws.readyState
    overlay,       \* the client's connection-status indicator
    canvas,        \* the client's canvas: its pixels and its 2d context
    sendThrows,    \* whether ws.send() on a socket that is not OPEN throws
    nsent,         \* the number of frames the peers have sent so far
    caught,        \* the last exception the server's message handler has caught
    unbacked,      \* the clients that painted a draw of their own which the server dropped
    up,            \* whether the server process is running
    missed,        \* the sweeps a connection has seen since it opened or last answered
    probe,         \* a validator call under test: its signature and its record
    outcome,       \* what that call came to
    shadow,        \* the client's canvas, had it painted the server's frames only
    pen            \* the Pen of the page, the pointer that moves it, what it emitted

\* What the message handlers and the user's gestures never touch.
aux == <<up, missed, probe, outcome, shadow, pen>>

vars == <<channels, participants, rs, alive, inbox, outbox, crs, overlay,
          canvas, sendThrows, nsent, caught, unbacked, aux>>

-----------------------------------------------------------------------------
(* Bounds of the model *)

\* The peers send at most this many frames in one behaviour.
MaxSent == 2

Conns == {"c1", "c2"}

\* "public" is created at start-up; "all" is the channel the client asks for.
ChannelNames == {"public", "all"}

-----------------------------------------------------------------------------
(* JavaScript values *)

Num(n) == [t |-> "number", n |-> n]
NaN == [t |-> "nan"]
Str(s) == [t |-> "string", s |-> s]
Null == [t |-> "null"]
Undefined == [t |-> "undefined"]
Obj(f) == [t |-> "object", o |-> f]
Arr(q) == [t |-> "array", a |-> q]

\* Object.keys(v): throws on null and undefined (reported by CanKeys).
CanKeys(v) == v.t \notin {"null", "undefined"}

Keys(v) ==
    CASE v.t = "object" -> DOMAIN v.o
      [] v.t = "string" -> {"0"}
      [] v.t = "array"  -> {"0"}
      [] OTHER          -> {}

\* v[key]
Get(v, key) ==
    IF v.t = "object" /\ key \in DOMAIN v.o THEN v.o[key] ELSE Undefined

IsStr(v, s) == v.t = "string" /\ v.s = s

\* Number.isFinite(v)
NumberIsFinite(v) == v.t = "number"

-----------------------------------------------------------------------------
(* The validators of the server and of the client *)

\* The predicates of the signatures, by name.
RECURSIVE validate_loop(_, _, _, _)
RECURSIVE validator(_, _)

\* A validator that lets pass a record with properties its signature lacks.
RECURSIVE validate_loop_Open(_, _, _, _)
validate_loop_Open(sig, data, i, properties) ==
    IF i > Len(sig) THEN "true"
    ELSE LET key == sig[i][1] IN
         IF key \in properties
         THEN LET r == validator(sig[i][2], Get(data, key)) IN
              IF r = "true"
              THEN validate_loop_Open(sig, data, i + 1, properties \ {key})
              ELSE r
         ELSE "false"

\* A validator that lets pass a record that lacks a property of its signature.
RECURSIVE validate_loop_Partial(_, _, _, _)
validate_loop_Partial(sig, data, i, properties) ==
    IF i > Len(sig)
    THEN IF properties # {} THEN "false" ELSE "true"
    ELSE LET key == sig[i][1] IN
         IF key \in properties
         THEN LET r == validator(sig[i][2], Get(data, key)) IN
              IF r = "true"
              THEN validate_loop_Partial(sig, data, i + 1, properties \ {key})
              ELSE r
         ELSE validate_loop_Partial(sig, data, i + 1, properties)

\* The loop of validate_data over Object.entries(sig), from entry i on, with
\* the properties not yet deleted.  "true", "false", or "throw".
validate_loop(sig, data, i, properties) ==
    IF i > Len(sig)
    THEN IF properties # {} THEN "false" ELSE "true"
    ELSE LET key == sig[i][1] IN
         IF key \in properties
         THEN LET r == validator(sig[i][2], Get(data, key)) IN
              IF r = "true"
              THEN validate_loop(sig, data, i + 1, properties \ {key})
              ELSE r
         ELSE "false"

validate_data(sig, data) ==
    IF ~CanKeys(data) THEN "throw" ELSE validate_loop(sig, data, 1, Keys(data))

pen_state_sig ==
    << <<"x", "finite">>, <<"y", "finite">>, <<"tool", "tool">>,
       <<"colour", "colour">>, <<"radius", "radius">> >>

validate_pen_state(state) == validate_data(pen_state_sig, state)

Bool(b) == IF b THEN "true" ELSE "false"

\* Predicates that take any number for a radius.
validator_AnyRadius(name, v) ==
    CASE name = "any"       -> "true"
      [] name = "colour"    -> "true"
      [] name = "finite"    -> Bool(NumberIsFinite(v))
      [] name = "tool"      -> Bool(v.t = "string" /\ v.s \in {"brush", "eraser"})
      [] name = "radius"    -> Bool(NumberIsFinite(v))
      [] name = "pen_state" -> validate_pen_state(v)

validator(name, v) ==
    CASE name = "any"       -> "true"
      [] name = "colour"    -> "true"
      [] name = "finite"    -> Bool(NumberIsFinite(v))
      [] name = "tool"      -> Bool(v.t = "string" /\ v.s \in {"brush", "eraser"})
      [] name = "radius"    -> Bool(NumberIsFinite(v) /\ v.n >= 0)
      [] name = "pen_state" -> validate_pen_state(v)

\* The switch on data.shape of Channel.draw: the verdict on a draw record.
valid_data(data) ==
    LET base == << <<"kind", "any">>, <<"shape", "any">> >>
        shape == Get(data, "shape")
    IN  CASE IsStr(shape, "circle") ->
               validate_data(base \o << <<"at", "pen_state">> >>, data)
          [] IsStr(shape, "bridge") ->
               validate_data(base \o << <<"from", "pen_state">>,
                                        <<"to", "pen_state">> >>, data)
          [] IsStr(shape, "clear") -> validate_data(base, data)
          [] OTHER -> "false"

\* The client's copy of the validator: Client.validate_data and the
\* validation of the delegate's draw.
RECURSIVE Client_validate_loop(_, _, _, _)
RECURSIVE Client_validator(_, _)

Client_validate_loop(sig, data, i, properties) ==
    IF i > Len(sig)
    THEN IF properties # {} THEN "false" ELSE "true"
    ELSE LET key == sig[i][1] IN
         IF key \in properties
         THEN LET r == Client_validator(sig[i][2], Get(data, key)) IN
              IF r = "true"
              THEN Client_validate_loop(sig, data, i + 1, properties \ {key})
              ELSE r
         ELSE "false"

Client_validate_data(sig, data) ==
    IF ~CanKeys(data) THEN "throw" ELSE Client_validate_loop(sig, data, 1, Keys(data))

Client_validate_pen_state(state) == Client_validate_data(pen_state_sig, state)

\* A client that takes only a string for a colour.
Client_validator_Colours(name, v) ==
    CASE name = "any"       -> "true"
      [] name = "colour"    -> Bool(v.t = "string")
      [] name = "finite"    -> Bool(NumberIsFinite(v))
      [] name = "tool"      -> Bool(v.t = "string" /\ v.s \in {"brush", "eraser"})
      [] name = "radius"    -> Bool(NumberIsFinite(v) /\ v.n >= 0)
      [] name = "pen_state" -> Client_validate_pen_state(v)

Client_validator(name, v) ==
    CASE name = "any"       -> "true"
      [] name = "colour"    -> "true"
      [] name = "finite"    -> Bool(NumberIsFinite(v))
      [] name = "tool"      -> Bool(v.t = "string" /\ v.s \in {"brush", "eraser"})
      [] name = "radius"    -> Bool(NumberIsFinite(v) /\ v.n >= 0)
      [] name = "pen_state" -> Client_validate_pen_state(v)

Client_valid_data(data) ==
    LET base == << <<"kind", "any">>, <<"shape", "any">> >>
        shape == Get(data, "shape")
    IN  CASE IsStr(shape, "circle") ->
               Client_validate_data(base \o << <<"at", "pen_state">> >>, data)
          [] IsStr(shape, "bridge") ->
               Client_validate_data(base \o << <<"from", "pen_state">>,
                                               <<"to", "pen_state">> >>, data)
          [] IsStr(shape, "clear") -> Client_validate_data(base, data)
          [] OTHER -> "false"

-----------------------------------------------------------------------------
(* The canvas.  A pixel holds the layers of paint on it, bottom first: an  *)
(* opaque paint replaces what is below, a translucent one is blended over  *)
(* it.  A paint is a CSS colour or a gradient between two colours.         *)

PIXEL_RATIO == 1

\* The device pixels of the model's canvas, as lattice points.
Pixels == (0 .. 2) \X (0 .. 1)

OpaqueColours == {"white", "black", "red", "blue"}
TranslucentColours == {"rgba(255,0,0,0.5)"}

\* Whether the context accepts v as a fillStyle or strokeStyle: a string that
\* parses as a CSS colour.  An assignment of anything else is ignored.
IsCssColour(v) == v.t = "string" /\ v.s \in OpaqueColours \cup TranslucentColours

Solid(s) == [k |-> "solid", c |-> s]
Nothing == [k |-> "nothing"]
LinearGradient(x0, y0, c0, x1, y1, c1) ==
    [k |-> "gradient", c0 |-> c0, c1 |-> c1, x0 |-> x0, y0 |-> y0, x1 |-> x1, y1 |-> y1]

\* What a paint leaves on a pixel: a gradient whose two points coincide paints
\* nothing, one whose two stops are the same colour paints that colour.
Ink(paint) ==
    IF paint.k = "gradient"
    THEN IF paint.x0 = paint.x1 /\ paint.y0 = paint.y1 THEN Nothing
         ELSE IF paint.c0 = paint.c1 THEN Solid(paint.c0) ELSE paint
    ELSE paint

IsOpaque(ink) ==
    IF ink.k = "solid" THEN ink.c \in OpaqueColours
    ELSE ink.c0 \in OpaqueColours /\ ink.c1 \in OpaqueColours

\* Source-over compositing of a paint on the layers of one pixel.
Over(paint, layers) ==
    LET ink == Ink(paint) IN
    IF ink.k = "nothing" THEN layers
    ELSE IF IsOpaque(ink) THEN <<ink>>
    ELSE Append(layers, ink)

\* Paint the pixels of region with paint.
Fill(cv, region, paint) ==
    [cv EXCEPT !.pixels = [p \in Pixels |->
        IF p \in region THEN Over(paint, cv.pixels[p]) ELSE cv.pixels[p]]]

Sq(n) == n * n

\* The pixels of the disc of radius r around (x, y); a disc of radius 0 has none.
Disc(x, y, r) ==
    IF r = 0 THEN {}
    ELSE {p \in Pixels : Sq(p[1] - x) + Sq(p[2] - y) <= Sq(r)}

\* The pixels of a stroked line of width w from (x0, y0) to (x1, y1), with the
\* default butt caps: a rectangle around the segment.
Band(x0, y0, x1, y1, w) ==
    LET dx == x1 - x0
        dy == y1 - y0
        len2 == Sq(dx) + Sq(dy)
    IN  {p \in Pixels :
            LET t == (p[1] - x0) * dx + (p[2] - y0) * dy
                c == (p[1] - x0) * dy - (p[2] - y0) * dx
            IN  /\ len2 > 0
                /\ 0 <= t /\ t <= len2
                /\ 4 * Sq(c) <= Sq(w) * len2}

\* The pixels of the convex hull of two discs: those within r(t) of the point
\* c(t) for some t in [0, 1], both interpolated linearly.  |p - c(t)|^2 - r(t)^2
\* is qa t^2 + qb t + qc.
Hull(x0, y0, r0, x1, y1, r1) ==
    LET dx == x1 - x0
        dy == y1 - y0
        dr == r1 - r0
        qa == Sq(dx) + Sq(dy) - Sq(dr)
    IN  {p \in Pixels :
            LET ex == p[1] - x0
                ey == p[2] - y0
                qb == - 2 * (ex * dx + ey * dy) - 2 * r0 * dr
                qc == Sq(ex) + Sq(ey) - Sq(r0)
            IN  \/ qc <= 0
                \/ qa + qb + qc <= 0
                \/ /\ qa > 0
                   /\ 0 <= - qb /\ - qb <= 2 * qa
                   /\ 4 * qa * qc <= Sq(qb)}

\* Canvas.constructor: the context's defaults, then clear().
\* Canvas.clear, with the background "white" of the drawing canvas.
CanvasClear(cv) ==
    Fill([cv EXCEPT !.fillStyle = Solid("white")], Pixels, Solid("white"))

NewCanvas ==
    CanvasClear([pixels |-> [p \in Pixels |-> <<>>],
                 fillStyle |-> Solid("black"),
                 strokeStyle |-> Solid("black"),
                 lineWidth |-> 1])

\* Draw.colour's setter: fillStyle = strokeStyle = colour.  The context keeps
\* its style when it is given a value that is neither a colour nor a gradient.
SetColour(cv, colour) ==
    IF colour.t = "gradient"
    THEN [cv EXCEPT !.fillStyle = colour.g, !.strokeStyle = colour.g]
    ELSE IF IsCssColour(colour)
    THEN [cv EXCEPT !.fillStyle = Solid(colour.s), !.strokeStyle = Solid(colour.s)]
    ELSE cv

\* Draw.circle (filled).
DrawCircle(cv, x, y, r) ==
    LET z == PIXEL_RATIO IN Fill(cv, Disc(x * z, y * z, r * z), cv.fillStyle)

\* The context keeps its lineWidth when it is given zero (or a negative or
\* non-finite value).
SetLineWidth(cv, w) == IF w > 0 THEN [cv EXCEPT !.lineWidth = w] ELSE cv

\* Draw.connect_circles.  With equal radii, a stroked line of width 2 r0.
\* Otherwise the polygon through the tangent points and the centres; it lies in
\* the convex hull of the two circles and, with the two circles, covers it.
\* Of the polygon the model paints the pixels outside both circles (every caller
\* fills the two circles with the same paint).  lineTo ignores a point that is
\* not a number, and then the path has no area.
ConnectCircles(cv, x0, y0, r0, x1, y1, r1) ==
    LET z == PIXEL_RATIO IN
    IF r0 = r1
    THEN LET cw == SetLineWidth(cv, 2 * r0 * z) IN
         Fill(cw, Band(x0 * z, y0 * z, x1 * z, y1 * z, cw.lineWidth), cw.strokeStyle)
    ELSE IF Sq(x1 - x0) + Sq(y1 - y0) > Sq(r0 - r1)
    THEN Fill(cv, Hull(x0 * z, y0 * z, r0 * z, x1 * z, y1 * z, r1 * z)
                    \ (Disc(x0 * z, y0 * z, r0 * z) \cup Disc(x1 * z, y1 * z, r1 * z)),
              cv.fillStyle)
    ELSE cv

\* The tangent branch of Draw.connect_circles, for r0 # r1.  The arguments in
\* the order the branch puts them in: the larger circle first.
TangentOrder(x0, y0, r0, x1, y1, r1) ==
    IF r0 < r1 THEN <<x1, y1, r1, x0, y0, r0>> ELSE <<x0, y0, r0, x1, y1, r1>>

\* xp and yp, the centre of the homothety that maps the one circle to the
\* other, each as a fraction of integers: <<numerator of xp, numerator of yp,
\* denominator of both>>.
HomothetyCentre(x0, y0, r0, x1, y1, r1) ==
    <<x1 * r0 - x0 * r1, y1 * r0 - y0 * r1, r0 - r1>>

\* The denominator of tangent_coord for the circle at (x, y), which is
\* (xp - x)^2 + (yp - y)^2, times the square of the denominator of xp.
TangentDenominator(x, y, centre) ==
    Sq(centre[1] - x * centre[3]) + Sq(centre[2] - y * centre[3])

\* What tangent_coord takes the square root of, for the circle of radius r at
\* (x, y): (xp - x)^2 + (yp - y)^2 - r^2, times the same square.
TangentRadicand(x, y, r, centre) ==
    TangentDenominator(x, y, centre) - Sq(r) * Sq(centre[3])

\* Whether tangent_coord gives a number for each of the two circles: it does
\* not when it divides zero by zero or takes the root of a negative number.
TangentsAreNumbers(x0, y0, r0, x1, y1, r1) ==
    LET o == TangentOrder(x0, y0, r0, x1, y1, r1)
        centre == HomothetyCentre(o[1], o[2], o[3], o[4], o[5], o[6])
    IN  /\ TangentDenominator(o[1], o[2], centre) # 0
        /\ TangentRadicand(o[1], o[2], o[3], centre) >= 0
        /\ TangentDenominator(o[4], o[5], centre) # 0
        /\ TangentRadicand(o[4], o[5], o[6], centre) >= 0

\* Draw.gradient: addColorStop throws on a value that is not a CSS colour.
GradientThrows(c0, c1) == ~IsCssColour(c0) \/ ~IsCssColour(c1)

Gradient(x0, y0, c0, x1, y1, c1) ==
    LET z == PIXEL_RATIO IN
    [t |-> "gradient",
     g |-> LinearGradient(x0 * z, y0 * z, c0.s, x1 * z, y1 * z, c1.s)]

\* The delegate's draw(data, from_server): validate, then paint.  The result
\* is the canvas afterwards and whether an exception left the function.
draw(cv, data) ==
    LET verdict == Client_valid_data(data)
        shape == Get(data, "shape")
        N(sample, key) == Get(sample, key).n
    IN
    IF verdict = "throw" THEN [threw |-> TRUE, cv |-> cv]
    ELSE IF verdict = "false" THEN [threw |-> FALSE, cv |-> cv]
    ELSE CASE IsStr(shape, "circle") ->
              LET at == Get(data, "at") IN
              [threw |-> FALSE,
               cv |-> DrawCircle(SetColour(cv, Get(at, "colour")),
                                 N(at, "x"), N(at, "y"), N(at, "radius"))]
           [] IsStr(shape, "bridge") ->
              LET from == Get(data, "from")
                  to == Get(data, "to")
              IN
              IF Get(from, "tool") = Get(to, "tool")
              THEN IF GradientThrows(Get(from, "colour"), Get(to, "colour"))
                   THEN [threw |-> TRUE, cv |-> cv]
                   ELSE LET c1 == SetColour(cv, Gradient(
                                      N(from, "x"), N(from, "y"), Get(from, "colour"),
                                      N(to, "x"), N(to, "y"), Get(to, "colour")))
                            c2 == DrawCircle(c1, N(from, "x"), N(from, "y"), N(from, "radius"))
                            c3 == DrawCircle(c2, N(to, "x"), N(to, "y"), N(to, "radius"))
                        IN  [threw |-> FALSE,
                             cv |-> ConnectCircles(c3,
                                      N(from, "x"), N(from, "y"), N(from, "radius"),
                                      N(to, "x"), N(to, "y"), N(to, "radius"))]
              ELSE [threw |-> FALSE,
                    cv |-> DrawCircle(SetColour(cv, Get(to, "colour")),
                                      N(to, "x"), N(to, "y"), N(to, "radius"))]
           [] IsStr(shape, "clear") ->
              [threw |-> FALSE, cv |-> CanvasClear(cv)]

-----------------------------------------------------------------------------
(* The wire: JSON.stringify on one side, JSON.parse on the other.  A frame *)
(* is a text: [t |-> "json", v |-> value] is the JSON text of a value, any  *)
(* other text is not JSON.  JSON has no NaN and no undefined: stringify     *)
(* writes null for a number that is not finite and leaves out a field that  *)
(* is undefined.                                                            *)

\* The value that the JSON text of v denotes.
RECURSIVE ToJSON(_)
ToJSON(v) ==
    CASE v.t = "nan" -> Null
      [] v.t = "object" ->
           LET kept == {k \in DOMAIN v.o : v.o[k].t # "undefined"} IN
           Obj([k \in kept |-> ToJSON(v.o[k])])
      [] v.t = "array" ->
           Arr([i \in 1 .. Len(v.a) |->
                  IF v.a[i].t = "undefined" THEN Null ELSE ToJSON(v.a[i])])
      [] OTHER -> v

JSONstringify(v) == [t |-> "json", v |-> ToJSON(v)]

\* A text that is not JSON.
NotJSON == [t |-> "text", s |-> "hello"]

\* What JSON.parse throws on it.
SyntaxError == [t |-> "SyntaxError"]

\* A parser that reads a text that is not JSON as a draw.
JSONparse_Lenient(text) ==
    IF text.t = "json" THEN text.v
    ELSE Obj([kind |-> Str("draw"), shape |-> Str("clear")])

\* JSON.parse(text): the value, or the SyntaxError thrown.
JSONparse(text) == IF text.t = "json" THEN text.v ELSE SyntaxError

JSONparseThrows(text) == JSONparse(text) = SyntaxError

-----------------------------------------------------------------------------
(* What the peers send *)

PenSample(x, y, tool, colour, radius) ==
    Obj([x |-> Num(x), y |-> Num(y), tool |-> Str(tool),
         colour |-> Str(colour), radius |-> Num(radius)])

Circle(at) == Obj([kind |-> Str("draw"), shape |-> Str("circle"), at |-> at])
Bridge(from, to) ==
    Obj([kind |-> Str("draw"), shape |-> Str("bridge"), from |-> from, to |-> to])
Clear == Obj([kind |-> Str("draw"), shape |-> Str("clear")])
Join(name) == Obj([kind |-> Str("join"), channel |-> Str(name)])

\* The strokes a user draws in the model: a segment under constant pressure,
\* and a segment drawn with no pressure at all.
Strokes ==
    { Bridge(PenSample(0, 0, "brush", "red", 1), PenSample(1, 0, "brush", "red", 1)),
      Bridge(PenSample(0, 0, "brush", "blue", 0), PenSample(2, 0, "brush", "blue", 0)) }

\* The frames a peer may write to its socket by itself.
RawFrames == {JSONstringify(Join("public"))}

\* A sample that every validator accepts.
Dot == PenSample(1, 1, "brush", "red", 0)

\* Draw records that Channel.draw turns down: a field is missing, a field is
\* too many, a field is of the wrong type, the shape is unknown, a sample is
\* null.
BadDraws ==
    { Obj([kind |-> Str("draw"), shape |-> Str("circle")]),
      Obj([kind |-> Str("draw"), shape |-> Str("clear"), at |-> Dot]),
      Circle(PenSample(1, 1, "pencil", "red", 0)),
      Obj([kind |-> Str("draw"), shape |-> Str("square"), at |-> Dot]),
      Circle(Null) }

\* Texts that are no envelope: not JSON, and JSON that is not an object.
Malformed == {NotJSON, JSONstringify(Null)}

\* Envelopes of a kind the server does not know, or of none.
UnknownKinds ==
    { JSONstringify(Obj([kind |-> Str("erase")])),
      JSONstringify(Obj([shape |-> Str("clear")])) }

\* The frames of peers that do not keep to the protocol.
WireFrames ==
    {JSONstringify(d) : d \in BadDraws \cup {Circle(Dot)}}
        \cup Malformed \cup UnknownKinds

\* The frames of the peers while the heartbeat is watched.
LiveFrames ==
    {JSONstringify(d) : d \in {Circle(Dot), Clear}}

IsDraw(data) == IsStr(Get(data, "kind"), "draw")
IsClear(data) == IsStr(Get(data, "shape"), "clear")

-----------------------------------------------------------------------------
(* The server *)

NewChannel == [participants |-> <<>>, canvas |-> <<>>]

InSeq(q, x) == \E i \in 1 .. Len(q) : q[i] = x
Without(q, x) == SelectSeq(q, LAMBDA y : y # x)

\* ws.send(text) on the server: it reaches the peer when the socket is OPEN;
\* otherwise it throws or does nothing, as the ws package in use decides.
SendFails(c) == rs[c] # "OPEN"
SendThrowsOn(c) == SendFails(c) /\ sendThrows

\* The participants a broadcast reaches: the loop of Channel.draw stops at the
\* first send that throws.
RECURSIVE Reached(_, _)
Reached(ps, i) ==
    IF i > Len(ps) THEN <<>>
    ELSE IF SendThrowsOn(ps[i]) THEN <<>>
    ELSE IF SendFails(ps[i]) THEN Reached(ps, i + 1)
    ELSE <<ps[i]>> \o Reached(ps, i + 1)

BroadcastThrows(ps) == \E i \in 1 .. Len(ps) : SendThrowsOn(ps[i])

\* The participants the loop of Channel.draw calls send() on: all of them, up
\* to the first call that throws.
RECURSIVE Tried(_, _)
Tried(ps, i) ==
    IF i > Len(ps) THEN {}
    ELSE IF SendThrowsOn(ps[i]) THEN {ps[i]}
    ELSE {ps[i]} \cup Tried(ps, i + 1)

\* A server that sends an accepted action to every open socket there is.
Recipients_Everyone(channel) ==
    SelectSeq(<<"c1", "c2">>, LAMBDA c : rs[c] = "OPEN")

\* The participants Channel.draw sends an accepted action to.
Recipients(channel) == Reached(channel.participants, 1)

\* A server that keeps the Clear it has just accepted as the whole history.
CanvasAfter_KeepsClear(history, data) ==
    IF IsClear(data) THEN <<data>> ELSE Append(history, data)

\* A server that puts an accepted action at the head of the history.
CanvasAfter_Prepend(history, data) ==
    IF IsClear(data) THEN <<>> ELSE <<data>> \o history

\* this.canvas after Channel.draw has accepted data and the loop has ended.
CanvasAfter(history, data) ==
    IF IsClear(data) THEN <<>> ELSE Append(history, data)

\* What a Map.get that finds nothing returns.
None == "undefined"

\* this.participants.has(ws)
ParticipantsHas(c) == c \in DOMAIN participants

\* this.participants.get(ws)
ParticipantsGet(c) == IF c \in DOMAIN participants THEN participants[c] ELSE None

\* A server that lets a connection outside every channel draw in "public".
DrawChannel_Default(c) == IF ParticipantsHas(c) THEN ParticipantsGet(c) ELSE "public"

\* The channel the "draw" arm of Server.receive_message draws in, if any.
DrawChannel(c) == IF ParticipantsHas(c) THEN ParticipantsGet(c) ELSE None

\* A server that takes an unknown channel name for "public".
ChannelsGet_Default(name) ==
    IF name.t = "string" /\ name.s \in DOMAIN channels THEN name.s ELSE "public"

\* this.channels.get(data.channel), for the value name of data.channel
ChannelsGet(name) ==
    IF name.t = "string" /\ name.s \in DOMAIN channels THEN name.s ELSE None

\* A server that sends a joiner an empty replay.
ChannelEnvelope_Empty(channel) ==
    JSONstringify(Obj([kind |-> Str("channel"), canvas |-> Arr(<<>>)]))

\* The envelope Channel.admit sends.
ChannelEnvelope(channel) ==
    JSONstringify(Obj([kind |-> Str("channel"), canvas |-> Arr(channel.canvas)]))

\* A transport that hands a frame to the peer ahead of the frames in flight.
Deliver_Overtaking(cs, frame) ==
    [c \in Conns |-> IF InSeq(cs, c) THEN <<frame>> \o outbox[c] ELSE outbox[c]]

\* The outboxes after frame has been sent to the open sockets cs.
Deliver(cs, frame) ==
    [c \in Conns |-> IF InSeq(cs, c) THEN Append(outbox[c], frame) ELSE outbox[c]]

\* Channel.admit(ws), called for the channel named name by the "join" arm of
\* Server.receive_message, which records the participant when admit returns
\* true.  A send that throws leaves admit before it returns.
Admit(name, c) ==
    LET channel == channels[name] IN
    IF InSeq(channel.participants, c)
    THEN UNCHANGED <<channels, participants, outbox>>
    ELSE /\ channels' = [channels EXCEPT ![name].participants = Append(@, c)]
         /\ outbox' = IF SendFails(c) THEN outbox
                       ELSE Deliver(<<c>>, ChannelEnvelope(channel))
         /\ participants' = IF SendThrowsOn(c) THEN participants
                             ELSE (c :> name) @@ participants

\* A channel that keeps and sends on whatever draw record it is given.
ChannelDraw_Unchecked(name, data) ==
    LET channel == channels[name] IN
    /\ channels' = [channels EXCEPT ![name].canvas = Append(channel.canvas, data)]
    /\ outbox' = Deliver(Recipients(channel), JSONstringify(data))
    /\ UNCHANGED participants

\* Channel.draw(data), called for the channel named name.  A send that throws
\* leaves the function before the history is wiped.
ChannelDraw(name, data) ==
    LET channel == channels[name] IN
    IF valid_data(data) = "true"
    THEN /\ channels' = [channels EXCEPT ![name].canvas =
                IF BroadcastThrows(channel.participants)
                THEN Append(channel.canvas, data)
                ELSE CanvasAfter(channel.canvas, data)]
         /\ outbox' = Deliver(Recipients(channel), JSONstringify(data))
         /\ UNCHANGED participants
    ELSE UNCHANGED <<channels, participants, outbox>>

\* Whether the server drops the draw record data of connection c.
Drops(c, data) ==
    IsDraw(data) /\ (~ParticipantsHas(c) \/ valid_data(data) # "true")

\* Server.receive_message(ws, data); the MessageError it throws for any other
\* kind is caught by the caller and changes nothing.
ReceiveMessage(c, data) ==
    LET kind == Get(data, "kind") IN
    CASE IsStr(kind, "join") ->
           IF ~ParticipantsHas(c)
           THEN LET name == ChannelsGet(Get(data, "channel")) IN
                IF name # None
                THEN Admit(name, c)
                ELSE UNCHANGED <<channels, participants, outbox>>
           ELSE UNCHANGED <<channels, participants, outbox>>
      [] IsStr(kind, "draw") ->
           LET name == DrawChannel(c) IN
           IF name # None
           THEN ChannelDraw(name, data)
           ELSE UNCHANGED <<channels, participants, outbox>>
      [] OTHER -> UNCHANGED <<channels, participants, outbox>>

\* A handler that hears nothing of a frame it cannot make sense of.
Caught_Silent(c, frame) == "none"

\* The exception that leaves JSON.parse or Server.receive_message for the
\* frame of connection c, "none" if none does: a SyntaxError of JSON.parse, a
\* TypeError of null.kind or of Object.keys(null), the Error of a send on a
\* socket that is not open, the MessageError of an unknown kind.
Caught(c, frame) ==
    IF JSONparseThrows(frame) THEN "SyntaxError"
    ELSE LET data == JSONparse(frame)
             kind == Get(data, "kind")
         IN
         IF ~CanKeys(data) THEN "TypeError"
         ELSE CASE IsStr(kind, "join") ->
                     LET name == ChannelsGet(Get(data, "channel")) IN
                     IF /\ ~ParticipantsHas(c)
                        /\ name # None
                        /\ ~InSeq(channels[name].participants, c)
                        /\ SendThrowsOn(c)
                     THEN "Error" ELSE "none"
                [] IsStr(kind, "draw") ->
                     LET name == DrawChannel(c) IN
                     IF name = None THEN "none"
                     ELSE IF valid_data(data) = "throw" THEN "TypeError"
                     ELSE IF /\ valid_data(data) = "true"
                             /\ BroadcastThrows(channels[name].participants)
                     THEN "Error" ELSE "none"
                [] OTHER -> "MessageError"

\* A server that takes any frame of a connection for a sign of life.
ServerMessage_Refreshes(c) ==
    /\ rs[c] \in {"OPEN", "CLOSING"}
    /\ inbox[c] # <<>>
    /\ inbox' = [inbox EXCEPT ![c] = Tail(@)]
    /\ IF JSONparseThrows(Head(inbox[c]))
       THEN UNCHANGED <<channels, participants, outbox>>
       ELSE ReceiveMessage(c, JSONparse(Head(inbox[c])))
    /\ caught' = IF Caught(c, Head(inbox[c])) = "none" THEN caught
                  ELSE Caught(c, Head(inbox[c]))
    /\ unbacked' = IF Drops(c, JSONparse(Head(inbox[c]))) THEN unbacked \cup {c}
                    ELSE unbacked
    /\ alive' = [alive EXCEPT ![c] = TRUE]
    /\ UNCHANGED <<rs, crs, overlay, canvas, sendThrows, aux, nsent>>

\* ws.on("message"): the server handles the oldest frame of a connection.  A
\* frame that had arrived when the socket began to close may still be handled.
\* Whatever the handling throws is caught and logged.
ServerMessage(c) ==
    /\ rs[c] \in {"OPEN", "CLOSING"}
    /\ inbox[c] # <<>>
    /\ inbox' = [inbox EXCEPT ![c] = Tail(@)]
    /\ IF JSONparseThrows(Head(inbox[c]))
       THEN UNCHANGED <<channels, participants, outbox>>
       ELSE ReceiveMessage(c, JSONparse(Head(inbox[c])))
    /\ caught' = IF Caught(c, Head(inbox[c])) = "none" THEN caught
                  ELSE Caught(c, Head(inbox[c]))
    /\ unbacked' = IF Drops(c, JSONparse(Head(inbox[c]))) THEN unbacked \cup {c}
                    ELSE unbacked
    /\ UNCHANGED <<rs, alive, crs, overlay, canvas, sendThrows, aux, nsent>>

\* this.participants and the channel's participants after ws.on("close").
CloseChannels(c) ==
    IF c \in DOMAIN participants
    THEN [channels EXCEPT ![participants[c]].participants = Without(@, c)]
    ELSE channels

CloseParticipants(c) == [d \in DOMAIN participants \ {c} |-> participants[d]]

\* The client's delegate.disconnect().
Disconnect(c) ==
    IF overlay[c] = "hidden"
    THEN "Disconnected from server. Please try refreshing."
    ELSE "Could not connect to server. Please try refreshing."

\* ws.on("close"): the socket has closed; the peer sees its own close event
\* no later than this.
ServerClose(c) ==
    /\ rs[c] = "CLOSING"
    /\ rs' = [rs EXCEPT ![c] = "CLOSED"]
    /\ channels' = CloseChannels(c)
    /\ participants' = CloseParticipants(c)
    /\ inbox' = [inbox EXCEPT ![c] = <<>>]
    /\ outbox' = [outbox EXCEPT ![c] = <<>>]
    /\ crs' = [crs EXCEPT ![c] = "CLOSED"]
    /\ overlay' = [overlay EXCEPT ![c] = IF crs[c] = "CLOSED" THEN @ ELSE Disconnect(c)]
    /\ UNCHANGED <<alive, canvas, sendThrows, caught, aux, nsent, unbacked>>

\* ws.on("pong"): the peer answers the ping of the last sweep.  An open socket
\* whose flag is false has a ping on its way, or its answer.
Pong(c) ==
    /\ ~alive[c]
    /\ rs[c] = "OPEN" /\ crs[c] = "OPEN"
    /\ alive' = [alive EXCEPT ![c] = TRUE]
    /\ missed' = [missed EXCEPT ![c] = 0]
    /\ UNCHANGED <<channels, participants, rs, inbox, outbox, crs, overlay, canvas,
                   sendThrows, caught, nsent, unbacked, up, probe, outcome, shadow, pen>>

\* this.wss.clients: a socket is in it from the handshake to its "close" event.
InClients(c) == rs[c] \in {"OPEN", "CLOSING"}

\* A heartbeat that never gives up on a socket.
SweepReadyState_Lenient(c) == rs[c]

\* ws.readyState after the sweep has looked at c: ws.terminate() for a socket
\* whose flag is false.
SweepReadyState(c) ==
    IF InClients(c) /\ ~alive[c] THEN "CLOSING" ELSE rs[c]

\* ws.ping(null) has no callback: on a socket that is not OPEN it throws where
\* ws.send() does, out of the timer's callback, which nothing catches.
SweepThrows ==
    sendThrows /\ \E c \in Conns : InClients(c) /\ alive[c] /\ rs[c] # "OPEN"

\* The process ends on an exception nothing catches: every socket closes and
\* no handler runs any more; the maps keep what they held at that moment.
Crash ==
    /\ up' = FALSE
    /\ rs' = [c \in Conns |-> IF rs[c] = "NONE" THEN "NONE" ELSE "CLOSED"]
    /\ crs' = [c \in Conns |-> IF rs[c] = "NONE" THEN crs[c] ELSE "CLOSED"]
    /\ overlay' = [c \in Conns |->
                     IF crs[c] = "OPEN" THEN Disconnect(c) ELSE overlay[c]]
    /\ inbox' = [c \in Conns |-> <<>>]
    /\ outbox' = [c \in Conns |-> <<>>]
    /\ UNCHANGED <<channels, participants, alive, missed, canvas, sendThrows, caught,
                   nsent, unbacked, probe, outcome, shadow, pen>>

\* The heartbeat: every socket of wss.clients that has not answered the last
\* ping is terminated, the others are pinged.
Sweep ==
    /\ up
    /\ \E c \in Conns : InClients(c)
    /\ IF SweepThrows
       THEN Crash
       ELSE /\ rs' = [c \in Conns |-> SweepReadyState(c)]
            /\ alive' = [c \in Conns |-> IF InClients(c) THEN FALSE ELSE alive[c]]
            /\ missed' = [c \in Conns |->
                            IF InClients(c) /\ missed[c] < 2 THEN missed[c] + 1
                            ELSE missed[c]]
            /\ UNCHANGED <<channels, participants, inbox, outbox, crs, overlay, canvas,
                           sendThrows, caught, nsent, unbacked, up, probe, outcome, shadow, pen>>

\* rl.on("line"): the operator creates a channel.
AddChannel(name) ==
    /\ up
    /\ name \notin DOMAIN channels
    /\ channels' = (name :> NewChannel) @@ channels
    /\ UNCHANGED <<participants, rs, alive, inbox, outbox, crs, overlay,
                   canvas, sendThrows, caught, aux, nsent, unbacked>>

-----------------------------------------------------------------------------
(* The client *)

\* The handshake ends: wss.on("connection") on the server, then the "open"
\* listener of the client: delegate.connect(), and the join request.
Open(c) ==
    /\ up
    /\ crs[c] = "CONNECTING" /\ rs[c] = "NONE"
    /\ rs' = [rs EXCEPT ![c] = "OPEN"]
    /\ alive' = [alive EXCEPT ![c] = TRUE]
    /\ crs' = [crs EXCEPT ![c] = "OPEN"]
    /\ overlay' = [overlay EXCEPT ![c] = "Loading canvas..."]
    /\ inbox' = [inbox EXCEPT ![c] = Append(@, JSONstringify(Join("all")))]
    /\ UNCHANGED <<channels, participants, outbox, canvas, sendThrows, caught, aux, nsent, unbacked>>

\* A client that writes to its socket whatever the state of the socket.
SendMessage_Always(c, cv, data) ==
    LET r == IF IsDraw(data) THEN draw(cv, data) ELSE [threw |-> FALSE, cv |-> cv] IN
    /\ canvas' = [canvas EXCEPT ![c] = r.cv]
    /\ inbox' = [inbox EXCEPT ![c] = Append(@, JSONstringify(data))]
    /\ nsent' = nsent + 1

\* A client that sends a draw without painting it first.
SendMessage_NoEcho(c, cv, data) ==
    IF crs[c] = "OPEN"
    THEN /\ canvas' = [canvas EXCEPT ![c] = cv]
         /\ inbox' = [inbox EXCEPT ![c] = Append(@, JSONstringify(data))]
         /\ nsent' = nsent + 1
    ELSE /\ canvas' = [canvas EXCEPT ![c] = cv]
         /\ UNCHANGED <<inbox, nsent>>

\* Client.send_message(data), on the canvas cv.  When the socket is OPEN a draw
\* is painted at once and then sent; an exception of the painting leaves before
\* the send.  Otherwise the message is dropped.
SendMessage(c, cv, data) ==
    IF crs[c] = "OPEN"
    THEN LET r == IF IsDraw(data) THEN draw(cv, data) ELSE [threw |-> FALSE, cv |-> cv] IN
         /\ canvas' = [canvas EXCEPT ![c] = r.cv]
         /\ inbox' = [inbox EXCEPT ![c] =
                IF r.threw THEN @ ELSE Append(@, JSONstringify(data))]
         /\ nsent' = IF r.threw THEN nsent ELSE nsent + 1
    ELSE /\ canvas' = [canvas EXCEPT ![c] = cv]
         /\ UNCHANGED <<inbox, nsent>>

\* pointer_down and pointer_move: the pen sends a stroke.
Stroke(c, data) ==
    /\ nsent < MaxSent
    /\ SendMessage(c, canvas[c], data)
    /\ UNCHANGED <<channels, participants, rs, alive, outbox, crs, overlay,
                   sendThrows, caught, aux, unbacked>>

\* The "Clear" button: canvas.clear(), then send_message.
ClearButton(c) ==
    /\ nsent < MaxSent
    /\ SendMessage(c, CanvasClear(canvas[c]), Clear)
    /\ UNCHANGED <<channels, participants, rs, alive, outbox, crs, overlay,
                   sendThrows, caught, aux, unbacked>>

\* A peer is not bound to run this client: it may write any frame.
RawSend(c, frame) ==
    /\ crs[c] = "OPEN"
    /\ nsent < MaxSent
    /\ nsent' = nsent + 1
    /\ inbox' = [inbox EXCEPT ![c] = Append(@, frame)]
    /\ UNCHANGED <<channels, participants, rs, alive, outbox, crs, overlay,
                   canvas, sendThrows, caught, aux, unbacked>>

\* The loop of Client.receive_message over data.canvas: it ends at the first
\* action whose painting throws.
RECURSIVE Replay(_, _, _)
Replay(cv, actions, i) ==
    IF i > Len(actions) THEN cv
    ELSE LET r == draw(cv, actions[i]) IN
         IF r.threw THEN r.cv ELSE Replay(r.cv, actions, i + 1)

\* Client.receive_message(data): the canvas and the overlay afterwards.
ReceiveCanvas(cv, data) ==
    LET kind == Get(data, "kind") IN
    CASE IsStr(kind, "channel") ->
           LET list == Get(data, "canvas") IN
           IF list.t = "array" THEN Replay(cv, list.a, 1) ELSE cv
      [] IsStr(kind, "draw") -> draw(cv, data).cv
      [] OTHER -> cv

ReceiveOverlay(shown, data) ==
    IF IsStr(Get(data, "kind"), "channel") THEN "hidden" ELSE shown

\* The "message" listener of the client.
ClientMessage(c) ==
    /\ crs[c] = "OPEN"
    /\ outbox[c] # <<>>
    /\ outbox' = [outbox EXCEPT ![c] = Tail(@)]
    /\ canvas' = [canvas EXCEPT ![c] = ReceiveCanvas(@, JSONparse(Head(outbox[c])))]
    /\ overlay' = [overlay EXCEPT ![c] = ReceiveOverlay(@, JSONparse(Head(outbox[c])))]
    /\ shadow' = [shadow EXCEPT ![c] = ReceiveCanvas(@, JSONparse(Head(outbox[c])))]
    /\ UNCHANGED <<channels, participants, rs, alive, inbox, crs, sendThrows, caught,
                   up, missed, probe, outcome, pen,
                   nsent, unbacked>>

\* The peer closes its socket, or the link breaks: the client's "close"
\* listener runs, and the server side of the socket begins to close.
PeerClose(c) ==
    /\ crs[c] = "OPEN"
    /\ crs' = [crs EXCEPT ![c] = "CLOSED"]
    /\ overlay' = [overlay EXCEPT ![c] = Disconnect(c)]
    /\ rs' = [rs EXCEPT ![c] = IF @ = "OPEN" THEN "CLOSING" ELSE @]
    /\ outbox' = [outbox EXCEPT ![c] = <<>>]
    /\ UNCHANGED <<channels, participants, alive, inbox, canvas, sendThrows, caught, aux,
                   nsent, unbacked>>

-----------------------------------------------------------------------------
(* The pen *)

\* The page whose pen is followed.
Drawer == "c1"

\* The pointer fires at most this many events in one behaviour.
MaxEvents == 5

\* event.button: the primary button and a secondary one.
Buttons == {0, 2}

\* Where the pointer may be, and how hard it presses.
PenPositions == {<<0, 0>>, <<1, 0>>, <<2, 1>>}
Pressures == {1}

MAIN_TOOL == "brush"
ALT_TOOL == "eraser"
stroke_radius == 10

\* An event of the pointer: alt says that the eraser button of a stylus or the
\* shift key is down (event.buttons & SECONDARY_PEN_BUTTON || event.shiftKey).
PointerEvent(at, pressure, button, alt) ==
    [x |-> at[1], y |-> at[2], pressure |-> pressure, button |-> button, alt |-> alt]

\* new PenState(x, y, pressure, pointerType)
PenState(x, y, pressure) ==
    [x |-> x, y |-> y, tool |-> "brush", colour |-> "black",
     pressure |-> pressure, stroke_radius |-> 10]

\* update_state_for_tool(state, tool), with no colour selected in the toolbar.
update_state_for_tool(state, tool) ==
    IF state = Null THEN state
    ELSE IF tool = "brush"
    THEN [state EXCEPT !.stroke_radius = stroke_radius, !.tool = tool]
    ELSE [state EXCEPT !.colour = "white", !.stroke_radius = stroke_radius * 4,
                       !.tool = tool]

\* pen_state_from_event(event), with the eraser of the toolbar not selected.
pen_state_from_event(event) ==
    update_state_for_tool(PenState(event.x, event.y, event.pressure), MAIN_TOOL)

\* PenState.as_message()
as_message(state) ==
    PenSample(state.x, state.y, state.tool, state.colour,
              state.pressure * state.stroke_radius)

\* Pen.changed(now)
changed(state, now) ==
    \/ now.x # state.x
    \/ now.y # state.y
    \/ now.tool # state.tool
    \/ now.pressure # state.pressure
    \/ now.colour # state.colour
    \/ now.stroke_radius # state.stroke_radius

\* new Pen(), the pointer at rest, and nothing emitted.  pressed are the
\* buttons that are down, at the position of the last sample, stroke whether a
\* button-0 pointerdown was the last of the pointerdown, pointerup and
\* pointercancel events, raised whether send_message has raised.
NewPen ==
    [state |-> Null, held |-> FALSE,
     pressed |-> {}, at |-> <<0, 0>>, stroke |-> FALSE, raised |-> FALSE, n |-> 0]

\* send_message reads this.ws.readyState: with no socket, this.ws is null and
\* the read raises a TypeError.
SendMessageThrows(c) == crs[c] = "NULL"

\* pointer_down(event): what becomes of the pen p, and what goes to
\* send_message.
pointer_down(p, event) ==
    LET from_event == pen_state_from_event(event)
        state == IF event.alt THEN update_state_for_tool(from_event, ALT_TOOL)
                 ELSE from_event
    IN
    IF event.button = 0
    THEN [pen |-> [p EXCEPT !.state = state, !.held = TRUE],
          sent |-> <<Circle(as_message(state))>>]
    ELSE [pen |-> [p EXCEPT !.state = state], sent |-> <<>>]

\* pointer_move(event): an exception of send_message leaves before pen.state
\* is assigned.
pointer_move(p, event, throws) ==
    LET from_event == pen_state_from_event(event)
        now == IF event.alt THEN update_state_for_tool(from_event, ALT_TOOL)
               ELSE from_event
    IN
    IF p.held /\ changed(p.state, now)
    THEN [pen |-> IF throws THEN p ELSE [p EXCEPT !.state = now],
          sent |-> <<Bridge(as_message(p.state), as_message(now))>>]
    ELSE [pen |-> [p EXCEPT !.state = now], sent |-> <<>>]

\* pointer_up(event)
pointer_up(p, event) ==
    IF event.button = -1 \/ event.button = 0
    THEN [pen |-> [p EXCEPT !.held = FALSE], sent |-> <<>>]
    ELSE [pen |-> p, sent |-> <<>>]

\* A listener has run handler with the result r: its message goes through
\* send_message, and the pointer is where the event has left it.
Handle(r, pressed, at, stroke) ==
    /\ pen.n < MaxEvents
    /\ IF r.sent = <<>>
       THEN UNCHANGED <<canvas, inbox, nsent>>
       ELSE SendMessage(Drawer, canvas[Drawer], r.sent[1])
    /\ pen' = [r.pen EXCEPT !.pressed = pressed, !.at = at, !.stroke = stroke,
                            !.raised = @ \/ (r.sent # <<>> /\ SendMessageThrows(Drawer)),
                            !.n = @ + 1]
    /\ UNCHANGED <<channels, participants, rs, alive, outbox, crs, overlay,
                   sendThrows, caught, unbacked, up, missed, probe, outcome, shadow>>

\* A button goes down.  "pointerdown" fires when the pointer becomes active,
\* that is with the first button; a further button is a "pointermove".
Press(button, alt) ==
    /\ button \notin pen.pressed
    /\ LET event == PointerEvent(pen.at, CHOOSE q \in Pressures : TRUE, button, alt) IN
       IF pen.pressed = {}
       THEN Handle(pointer_down(pen, event), {button}, pen.at, button = 0)
       ELSE Handle(pointer_move(pen, event, SendMessageThrows(Drawer)),
                   pen.pressed \cup {button}, pen.at, pen.stroke)

\* A button goes up.  "pointerup" fires with the last button; the release of
\* another one is a "pointermove".
Release(button, alt) ==
    /\ button \in pen.pressed
    /\ LET event == PointerEvent(pen.at, CHOOSE q \in Pressures : TRUE, button, alt) IN
       IF pen.pressed = {button}
       THEN Handle(pointer_up(pen, event), {}, pen.at, FALSE)
       ELSE Handle(pointer_move(pen, event, SendMessageThrows(Drawer)),
                   pen.pressed \ {button}, pen.at, pen.stroke)

\* The pointer moves, or its pressure changes: "pointermove".
Move(at, pressure, alt) ==
    Handle(pointer_move(pen, PointerEvent(at, pressure, -1, alt),
                        SendMessageThrows(Drawer)),
           pen.pressed, at, pen.stroke)

\* "pointercancel": the stylus is deactivated.
Cancel ==
    /\ pen.pressed # {}
    /\ Handle(pointer_up(pen, PointerEvent(pen.at, 0, 0, FALSE)), {}, pen.at, FALSE)

-----------------------------------------------------------------------------
(* The specification *)

Init ==
    /\ channels = [n \in {"public"} |-> NewChannel]
    /\ participants = <<>>
    /\ rs = [c \in Conns |-> "NONE"]
    /\ alive = [c \in Conns |-> FALSE]
    /\ inbox = [c \in Conns |-> <<>>]
    /\ outbox = [c \in Conns |-> <<>>]
    /\ crs = [c \in Conns |-> "CONNECTING"]
    /\ overlay = [c \in Conns |-> "Connecting..."]
    /\ canvas = [c \in Conns |-> NewCanvas]
    /\ sendThrows \in BOOLEAN
    /\ nsent = 0
    /\ caught = "none"
    /\ unbacked = {}
    /\ up = TRUE
    /\ missed = [c \in Conns |-> 0]
    /\ probe = [sig |-> <<>>, data |-> Undefined]
    /\ outcome = "none"
    /\ shadow = [c \in Conns |-> NewCanvas]
    /\ pen = NewPen

Next ==
    \/ \E c \in Conns : Open(c)
    \/ \E c \in Conns, data \in Strokes : Stroke(c, data)
    \/ \E c \in Conns : ClearButton(c)
    \/ \E c \in Conns, frame \in RawFrames : RawSend(c, frame)
    \/ \E c \in Conns : ServerMessage(c)
    \/ \E c \in Conns : ClientMessage(c)
    \/ \E c \in Conns : PeerClose(c)
    \/ \E c \in Conns : ServerClose(c)
    \/ \E name \in ChannelNames : AddChannel(name)

Spec == Init /\ [][Next]_vars

\* The server with its heartbeat, and peers that answer a ping or do not; what
\* the server sends them stays in their sockets.
NextLive ==
    \/ \E c \in Conns : Open(c)
    \/ Sweep
    \/ \E c \in Conns : Pong(c)
    \/ \E c \in Conns, frame \in LiveFrames : RawSend(c, frame)
    \/ \E c \in Conns : ServerMessage(c)
    \/ \E c \in Conns : PeerClose(c)
    \/ \E c \in Conns : ServerClose(c)
    \/ \E name \in ChannelNames : AddChannel(name)

SpecLive == Init /\ [][NextLive]_vars

\* The server as it starts, with the bootstrap channel and no other: clients
\* of this repository, and peers that ask for a channel by themselves.  The
\* event loops of both sides handle every frame that has arrived.
NextDefault ==
    \/ \E c \in Conns : Open(c)
    \/ \E c \in Conns, frame \in RawFrames : RawSend(c, frame)
    \/ \E c \in Conns : ServerMessage(c)
    \/ \E c \in Conns : ClientMessage(c)
    \/ \E c \in Conns : PeerClose(c)
    \/ \E c \in Conns : ServerClose(c)

SpecDefault ==
    /\ Init /\ [][NextDefault]_vars
    /\ \A c \in Conns : WF_vars(ServerMessage(c)) /\ WF_vars(ClientMessage(c))

\* The server and peers that write what they like to their sockets, and keep
\* them open.
NextWire ==
    \/ \E c \in Conns : Open(c)
    \/ \E c \in Conns, frame \in WireFrames : RawSend(c, frame)
    \/ \E c \in Conns : ServerMessage(c)
    \/ \E c \in Conns : ClientMessage(c)
    \/ \E name \in ChannelNames : AddChannel(name)

SpecWire == Init /\ [][NextWire]_vars

-----------------------------------------------------------------------------
(* The validators on their own: a call, and what it comes to *)

\* The records with some of the keys ks, their values among vs.
Records(ks, vs) == {Obj(f) : f \in UNION {[d -> vs] : d \in SUBSET ks}}

\* Signatures over the keys a and b, in either order, and records over a, b
\* and a key no signature has.
ProbeSigs ==
    LET preds == {"any", "finite"} IN
    {<<>>}
        \cup {<< <<k, q>> >> : k \in {"a", "b"}, q \in preds}
        \cup {<< <<k[1], q1>>, <<k[2], q2>> >> :
                 k \in {<<"a", "b">>, <<"b", "a">>}, q1 \in preds, q2 \in preds}

ProbeRecords == Records({"a", "b", "c"}, {Num(1), Str("s")})

\* What the field of a draw record that should hold a sample may hold.
ProbeSamples ==
    { Dot, Null, Num(5),
      PenSample(1, 1, "eraser", "red", 2),
      PenSample(1, 1, "pencil", "red", 0),
      PenSample(1, 1, "brush", "red", -1),
      Obj([x |-> Str("1"), y |-> Num(1), tool |-> Str("brush"),
           colour |-> Str("red"), radius |-> Num(0)]),
      Obj([x |-> Num(1), y |-> Num(1), tool |-> Str("brush"),
           colour |-> Num(7), radius |-> Num(0)]),
      Obj([x |-> Num(1), y |-> Num(1), tool |-> Str("brush"), radius |-> Num(0)]),
      Obj([x |-> Num(1), y |-> Num(1), tool |-> Str("brush"),
           colour |-> Str("red"), radius |-> Num(0), pressure |-> Num(1)]) }

\* Draw envelopes: a shape, known or not, or none, and some of the fields.
ProbeDraws ==
    LET shapes == {Str("circle"), Str("bridge"), Str("clear"), Str("square")}
        heads == {[kind |-> Str("draw")]}
                    \cup {[kind |-> Str("draw"), shape |-> sh] : sh \in shapes}
        rest == Records({"at", "from", "to"}, ProbeSamples)
    IN  {Obj(h @@ r.o) : h \in heads, r \in rest}

\* A call under test, and the place for what it comes to.
InitOutcome(probes, blank) ==
    /\ channels = [n \in {"public"} |-> NewChannel]
    /\ participants = <<>>
    /\ rs = [c \in Conns |-> "NONE"]
    /\ alive = [c \in Conns |-> FALSE]
    /\ inbox = [c \in Conns |-> <<>>]
    /\ outbox = [c \in Conns |-> <<>>]
    /\ crs = [c \in Conns |-> "CONNECTING"]
    /\ overlay = [c \in Conns |-> "Connecting..."]
    /\ canvas = [c \in Conns |-> NewCanvas]
    /\ sendThrows = FALSE
    /\ nsent = 0
    /\ caught = "none"
    /\ unbacked = {}
    /\ up = TRUE
    /\ missed = [c \in Conns |-> 0]
    /\ probe \in probes
    /\ outcome = blank
    /\ shadow = [c \in Conns |-> NewCanvas]
    /\ pen = NewPen

InitProbe(probes) == InitOutcome(probes, "none")

\* A call of Server.validate_data(sig, data).
ValidateData ==
    /\ outcome = "none" /\ probe.sig # "draw"
    /\ outcome' = validate_data(probe.sig, probe.data)
    /\ UNCHANGED <<channels, participants, rs, alive, inbox, outbox, crs, overlay,
                   canvas, sendThrows, nsent, caught, unbacked, up, missed, probe, shadow, pen>>

\* The validation of Channel.draw(data).
ValidDraw ==
    /\ outcome = "none" /\ probe.sig = "draw"
    /\ outcome' = valid_data(probe.data)
    /\ UNCHANGED <<channels, participants, rs, alive, inbox, outbox, crs, overlay,
                   canvas, sendThrows, nsent, caught, unbacked, up, missed, probe, shadow, pen>>

SpecValidate ==
    /\ InitProbe([sig : ProbeSigs, data : ProbeRecords])
    /\ [][ValidateData]_vars

SpecDraw ==
    /\ InitProbe([sig : {"draw"}, data : ProbeDraws])
    /\ [][ValidDraw]_vars

\* Draw records for both validators: those above, what the pen sends, and
\* records that do not come through JSON as they are.
AgreeDraws ==
    ProbeDraws \cup Strokes \cup {Clear, Circle(Dot)}
        \cup { Circle(Obj([x |-> Num(1), y |-> Num(1), tool |-> Str("brush"),
                           colour |-> Undefined, radius |-> Num(0)])),
               Circle(Obj([x |-> Num(1), y |-> Num(1), tool |-> Str("brush"),
                           colour |-> Str("red"), radius |-> NaN])),
               Obj([kind |-> Str("draw"), shape |-> Str("clear"), at |-> Undefined]) }

Undecided == [client |-> "none", server |-> "none", wire |-> "none"]

\* One record before both validations: the client's, the server's of the
\* same record, and the server's of what the record is after the wire.
BothValidate ==
    /\ outcome = Undecided
    /\ outcome' = [client |-> Client_valid_data(probe.data),
                   server |-> valid_data(probe.data),
                   wire |-> valid_data(JSONparse(JSONstringify(probe.data)))]
    /\ UNCHANGED <<channels, participants, rs, alive, inbox, outbox, crs, overlay,
                   canvas, sendThrows, nsent, caught, unbacked, up, missed, probe, shadow, pen>>

SpecAgree ==
    /\ InitOutcome([sig : {"draw"}, data : AgreeDraws], Undecided)
    /\ [][BothValidate]_vars

-----------------------------------------------------------------------------
(* The rendering on its own: an action painted on a canvas, once and again *)

MaxRadius == 2
MaxRenders == 2

\* The colours of a sample: two opaque ones, a translucent one, and a string
\* that is no CSS colour (the validators take any value for a colour).
RenderColours == {"red", "blue", "rgba(255,0,0,0.5)", "bogus"}

RenderSamples ==
    {PenSample(p[1], p[2], tool, colour, r) :
        p \in {<<0, 0>>, <<1, 0>>, <<2, 1>>}, tool \in {"brush", "eraser"},
        colour \in RenderColours, r \in 0 .. MaxRadius}

RenderDraws ==
    {Clear} \cup {Circle(at) : at \in RenderSamples}
            \cup {Bridge(from, to) : from \in RenderSamples, to \in RenderSamples}

\* The canvas as it is made, and a canvas that has been drawn on: a bridge
\* has left its gradient and its line width in the context.
RenderCanvases ==
    { NewCanvas,
      draw(NewCanvas, Bridge(PenSample(0, 1, "brush", "blue", 2),
                             PenSample(1, 1, "brush", "blue", 2))).cv }

Unrendered == [drawn |-> <<>>, connected |-> <<>>]

\* delegate.draw(probe.data) on the canvas, as often as MaxRenders.
Render ==
    /\ Len(outcome.drawn) < MaxRenders
    /\ outcome' = [outcome EXCEPT !.drawn =
           Append(@, draw(IF @ = <<>> THEN probe.cv ELSE @[Len(@)].cv, probe.data))]
    /\ UNCHANGED <<channels, participants, rs, alive, inbox, outbox, crs, overlay,
                   canvas, sendThrows, nsent, caught, unbacked, up, missed, probe, shadow, pen>>

\* canvas.draw.connect_circles on the canvas, for the two samples of a bridge.
Connect ==
    /\ outcome.connected = <<>>
    /\ IsStr(Get(probe.data, "shape"), "bridge")
    /\ LET from == Get(probe.data, "from")
           to == Get(probe.data, "to")
       IN  outcome' = [outcome EXCEPT !.connected = << ConnectCircles(probe.cv,
               Get(from, "x").n, Get(from, "y").n, Get(from, "radius").n,
               Get(to, "x").n, Get(to, "y").n, Get(to, "radius").n) >>]
    /\ UNCHANGED <<channels, participants, rs, alive, inbox, outbox, crs, overlay,
                   canvas, sendThrows, nsent, caught, unbacked, up, missed, probe, shadow, pen>>

SpecRender ==
    /\ InitOutcome([sig : {"render"}, data : RenderDraws, cv : RenderCanvases],
                   Unrendered)
    /\ [][Render \/ Connect]_vars

-----------------------------------------------------------------------------
(* The replay on its own: a channel envelope, and a live draw after it *)

MaxHistory == 2

\* Actions the server accepts and keeps in a history: a circle, a bridge, a
\* clear, and a bridge whose colour is no CSS colour.
ReplayActions ==
    { Circle(PenSample(0, 0, "brush", "red", 1)),
      Circle(PenSample(2, 1, "eraser", "white", 1)),
      Bridge(PenSample(0, 1, "brush", "blue", 1), PenSample(2, 1, "brush", "red", 2)),
      Bridge(PenSample(0, 0, "brush", "bogus", 1), PenSample(1, 0, "brush", "bogus", 1)),
      Clear }

\* The histories of at most MaxHistory actions.
Histories == UNION {[1 .. n -> ReplayActions] : n \in 0 .. MaxHistory}

Envelope(history) == Obj([kind |-> Str("channel"), canvas |-> Arr(history)])

\* The client's "message" listener is given the envelope of a channel.
ReceiveEnvelope ==
    /\ outcome = <<>>
    /\ outcome' = <<ReceiveCanvas(NewCanvas, JSONparse(JSONstringify(probe.data)))>>
    /\ UNCHANGED <<channels, participants, rs, alive, inbox, outbox, crs, overlay,
                   canvas, sendThrows, nsent, caught, unbacked, up, missed, probe, shadow, pen>>

\* It is given a live draw after the envelope.
ReceiveLive ==
    /\ Len(outcome) = 1
    /\ outcome' = Append(outcome, ReceiveCanvas(outcome[1], JSONparse(JSONstringify(probe.live))))
    /\ UNCHANGED <<channels, participants, rs, alive, inbox, outbox, crs, overlay,
                   canvas, sendThrows, nsent, caught, unbacked, up, missed, probe, shadow, pen>>

SpecReplay ==
    /\ InitOutcome([sig : {"replay"}, data : {Envelope(h) : h \in Histories},
                    live : ReplayActions], <<>>)
    /\ [][ReceiveEnvelope \/ ReceiveLive]_vars

\* The page of one user.  The socket is there and connecting, or it was never
\* created: the query string lacks the host or the port, or connect() turned
\* them down, and this.ws is still the null of the constructor.
InitPen ==
    /\ channels = [n \in {"public"} |-> NewChannel]
    /\ participants = <<>>
    /\ rs = [c \in Conns |-> "NONE"]
    /\ alive = [c \in Conns |-> FALSE]
    /\ inbox = [c \in Conns |-> <<>>]
    /\ outbox = [c \in Conns |-> <<>>]
    /\ crs \in [Conns -> {"NULL", "CONNECTING"}]
    /\ overlay = [c \in Conns |-> "Connecting..."]
    /\ canvas = [c \in Conns |-> NewCanvas]
    /\ sendThrows = FALSE
    /\ nsent = 0
    /\ caught = "none"
    /\ unbacked = {}
    /\ up = TRUE
    /\ missed = [c \in Conns |-> 0]
    /\ probe = [sig |-> <<>>, data |-> Undefined]
    /\ outcome = "none"
    /\ shadow = [c \in Conns |-> NewCanvas]
    /\ pen = NewPen

NextPen ==
    \/ Open(Drawer)
    \/ PeerClose(Drawer)
    \/ \E button \in Buttons, alt \in BOOLEAN : Press(button, alt)
    \/ \E button \in Buttons, alt \in BOOLEAN : Release(button, alt)
    \/ \E at \in PenPositions, pressure \in Pressures, alt \in BOOLEAN :
          Move(at, pressure, alt)
    \/ Cancel

SpecPen == InitPen /\ [][NextPen]_vars

-----------------------------------------------------------------------------
(* Properties *)

\* The channel a connection is a live participant of: it is recorded by the
\* server and its socket is open at both ends.
Member(c, name) ==
    /\ c \in DOMAIN participants /\ participants[c] = name
    /\ rs[c] = "OPEN" /\ crs[c] = "OPEN"

\* Nothing of connection c is on its way, in either direction.
Quiescent(c) == inbox[c] = <<>> /\ outbox[c] = <<>>

\* C1 (as claimed): convergence.  Two participants of one channel, every draw
\* of theirs accepted by the server, and every frame the server sent them
\* delivered and applied, show the same pixels.
C1_Convergence ==
    \A c, d \in Conns : \A name \in DOMAIN channels :
        ( /\ Member(c, name) /\ Member(d, name)
          /\ Quiescent(c) /\ Quiescent(d)
          /\ c \notin unbacked /\ d \notin unbacked )
        => canvas[c].pixels = canvas[d].pixels

\* The step in which the server handles the oldest frame of connection c.
Handles(c) ==
    /\ inbox[c] # <<>>
    /\ inbox' = [inbox EXCEPT ![c] = Tail(@)]
    /\ rs' = rs

\* The record the server handles in that step.
Handled(c) == JSONparse(Head(inbox[c]))

\* The step in which the server handles a draw of connection c and accepts it.
Accepts(c) ==
    /\ Handles(c)
    /\ ParticipantsHas(c)
    /\ IsDraw(Handled(c))
    /\ valid_data(Handled(c)) = "true"

IsFrame(frame, kind) == IsStr(Get(JSONparse(frame), "kind"), kind)

\* Some send of the broadcast of channel name would throw (see C17).
SomeSendThrows(name) ==
    sendThrows /\ \E i \in 1 .. Len(channels[name].participants) :
                      rs[channels[name].participants[i]] # "OPEN"

\* C2 (as claimed): clear truncation.  Once the server has accepted a clear,
\* the history of the channel is that Clear alone.
C2_ClearLeavesClear ==
    [][\A c \in Conns :
          Accepts(c) /\ IsClear(Handled(c))
          => channels'[participants[c]].canvas = <<Handled(c)>>]_vars

\* C2 (amended): once the server has accepted a clear, the history of the
\* channel is empty, whatever it was; unless a send of the broadcast threw,
\* and then it is the old history followed by the Clear.
C2_ClearWipesHistory ==
    [][\A c \in Conns :
          Accepts(c) /\ IsClear(Handled(c))
          => LET name == participants[c] IN
             channels'[name].canvas =
                IF SomeSendThrows(name)
                THEN Append(channels[name].canvas, Handled(c))
                ELSE <<>>]_vars

\* C2's case: a channel whose history is empty after a stroke and then a clear
\* were broadcast to a participant.
C2_Witness ==
    \E c \in Conns :
        /\ ParticipantsHas(c)
        /\ channels[participants[c]].canvas = <<>>
        /\ \E i, j \in 1 .. Len(outbox[c]) :
              /\ i < j
              /\ outbox[c][i] \in {JSONstringify(d) : d \in Strokes}
              /\ outbox[c][j] = JSONstringify(Clear)

Last(q) == q[Len(q)]

\* The channels whose participant set holds c.
ChannelsOf(c) == {n \in DOMAIN channels : InSeq(channels[n].participants, c)}

\* The frames of kind kind among those on their way to c.
Pending(c, kind) == {i \in 1 .. Len(outbox[c]) : IsFrame(outbox[c][i], kind)}

\* Whether the client of c has handled a channel envelope.
Replayed(c) == overlay[c] = "hidden"

\* C3: join-then-replay.  A join that the server records for a connection
\* whose socket is open sends it one channel envelope, whose canvas list is
\* the history of the channel at that instant; a connection is sent at most one
\* envelope, and no draw frame reaches it ahead of its envelope.
C3_JoinThenReplay ==
    [][\A c \in Conns :
          /\ ( ~ParticipantsHas(c) /\ c \in DOMAIN participants' /\ rs[c] = "OPEN" )
             => /\ Len(outbox'[c]) = Len(outbox[c]) + 1
                /\ SubSeq(outbox'[c], 1, Len(outbox[c])) = outbox[c]
                /\ IsFrame(Last(outbox'[c]), "channel")
                /\ Get(JSONparse(Last(outbox'[c])), "canvas")
                      = Arr(channels[participants'[c]].canvas)
          /\ Cardinality(Pending(c, "channel")') + (IF Replayed(c)' THEN 1 ELSE 0) <= 1
          /\ \A i \in Pending(c, "draw")' :
                Replayed(c)' \/ \E j \in Pending(c, "channel")' : j < i]_vars

\* C3's case: a joiner has been sent the history of its channel, which was
\* not empty, and after it a live draw.
C3_Witness ==
    \E c \in Conns :
        /\ Len(outbox[c]) >= 2
        /\ IsFrame(outbox[c][1], "channel")
        /\ Get(JSONparse(outbox[c][1]), "canvas").a # <<>>
        /\ IsFrame(outbox[c][2], "draw")

\* The history a replay of the actions q leaves: CanvasAfter, one by one.
RECURSIVE Compact(_, _)
Compact(history, q) ==
    IF q = <<>> THEN history
    ELSE Compact(IF IsClear(Head(q)) THEN <<>> ELSE Append(history, Head(q)), Tail(q))

IsSuffix(q, whole) ==
    /\ Len(q) <= Len(whole)
    /\ SubSeq(whole, Len(whole) - Len(q) + 1, Len(whole)) = q

\* The draw records on their way to c after its envelope, if that is on its way.
DrawsPending(c) ==
    LET from == IF Pending(c, "channel") = {} THEN 0
                ELSE CHOOSE i \in Pending(c, "channel") : TRUE
    IN  [i \in 1 .. Len(outbox[c]) - from |-> JSONparse(outbox[c][from + i])]

\* C4 (as claimed): no gap and no duplicate for a joiner.  What a connected
\* participant has been sent is the history at its join followed by every
\* action accepted since, in order: the replay and the draws on their way to
\* it add up to the history of its channel.
C4_NoGapNoDuplicate ==
    \A c \in Conns : \A name \in DOMAIN channels :
        Member(c, name) =>
            LET draws == DrawsPending(c)
                sent == Pending(c, "channel")
            IN
            IF sent # {}
            THEN Compact(Get(JSONparse(outbox[c][CHOOSE i \in sent : TRUE]), "canvas").a,
                         draws) = channels[name].canvas
            ELSE IF \E i \in 1 .. Len(draws) : IsClear(draws[i])
            THEN Compact(<<>>, draws) = channels[name].canvas
            ELSE IsSuffix(draws, channels[name].canvas)

\* C5 (as claimed): broadcast to all, the sender included.  An accepted draw
\* is sent as it came, once, to every participant of the sender's channel
\* whose socket is open.
C5_BroadcastToAll ==
    [][\A c \in Conns :
          Accepts(c)
          => \A q \in Conns :
                ( InSeq(channels[participants[c]].participants, q) /\ rs[q] = "OPEN" )
                => outbox'[q] = Append(outbox[q], Head(inbox[c]))]_vars

\* C6: a single total order.  The server handles one frame in one step; the
\* step that accepts a draw appends that one record to the history (or, for a
\* clear, wipes it) and appends that one frame at the end of the frames on
\* their way to participants of that channel; no other step sends a draw.
C6_SingleTotalOrder ==
    [][\A q \in Conns :
          Len(outbox'[q]) > Len(outbox[q])
          => /\ Len(outbox'[q]) = Len(outbox[q]) + 1
             /\ SubSeq(outbox'[q], 1, Len(outbox[q])) = outbox[q]
             /\ \E c \in Conns :
                   /\ Handles(c)
                   /\ \A d \in Conns \ {c} : inbox'[d] = inbox[d]
                   /\ IsFrame(Last(outbox'[q]), "draw")
                      => /\ Last(outbox'[q]) = Head(inbox[c])
                         /\ Accepts(c)
                         /\ InSeq(channels[participants[c]].participants, q)
                         /\ LET name == participants[c] IN
                            \/ channels'[name].canvas =
                                  Append(channels[name].canvas, Handled(c))
                            \/ IsClear(Handled(c)) /\ channels'[name].canvas = <<>>]_vars

\* C6's case: draws of two participants of one channel are on their way to
\* both of them, in the same order.
C6_Witness ==
    \E c, d \in Conns :
        /\ c # d
        /\ Len(outbox[c]) >= 2 /\ Len(outbox[d]) >= 2
        /\ LET fc == SubSeq(outbox[c], Len(outbox[c]) - 1, Len(outbox[c]))
               fd == SubSeq(outbox[d], Len(outbox[d]) - 1, Len(outbox[d]))
           IN  /\ fc = fd
               /\ IsFrame(fc[1], "draw") /\ IsFrame(fc[2], "draw")
               /\ fc[1] # fc[2]

\* C7: an unauthorized draw.  A draw of a connection that the server has not
\* recorded in a channel changes no history and no participant set, and sends
\* nothing.
C7_UnauthorizedDraw ==
    [][\A c \in Conns :
          ( Handles(c) /\ IsDraw(Handled(c)) /\ ~ParticipantsHas(c) )
          => /\ channels' = channels
             /\ participants' = participants
             /\ outbox' = outbox]_vars

\* C7's case: the server has dropped a draw of a connection outside every
\* channel, while another connection was a participant of a channel.
C7_Witness ==
    \E c, d \in Conns :
        /\ c \in unbacked /\ ~ParticipantsHas(c) /\ rs[c] = "OPEN" /\ inbox[c] = <<>>
        /\ Member(d, "public")

\* C8: a join of a channel that does not exist changes no participant set, no
\* history and no registry entry and sends nothing; and a connection outside
\* every channel, whatever it asked for before, is admitted to a channel that
\* exists.
C8_JoinNonexistent ==
    [][\A c \in Conns :
          ( Handles(c) /\ IsStr(Get(Handled(c), "kind"), "join") )
          => LET asked == Get(Handled(c), "channel") IN
             IF asked.t = "string" /\ asked.s \in DOMAIN channels
             THEN ( ~ParticipantsHas(c) /\ rs[c] = "OPEN" )
                  => /\ c \in DOMAIN participants'
                     /\ participants'[c] = asked.s
                     /\ InSeq(channels'[asked.s].participants, c)
             ELSE /\ channels' = channels
                  /\ participants' = participants
                  /\ outbox' = outbox]_vars

\* C8's case: a connection whose join of "all" was refused, because there is
\* no such channel, is now a participant of "public".
C8_Witness ==
    \E c \in Conns :
        /\ "all" \notin DOMAIN channels
        /\ Member(c, "public")

\* C9 (as claimed): at most one channel per participant.  A connection is in
\* the participant set of at most one channel; a join of a connection that is
\* in a channel changes nothing and sends nothing; and a connection stays in
\* its channel until it closes.
C9_AtMostOneChannel ==
    [][\A c \in Conns :
          /\ Cardinality(ChannelsOf(c)') <= 1
          /\ ( Handles(c) /\ IsStr(Get(Handled(c), "kind"), "join") /\ ChannelsOf(c) # {} )
             => /\ channels' = channels
                /\ participants' = participants
                /\ outbox' = outbox
          /\ ( ChannelsOf(c) # {} /\ rs'[c] # "CLOSED" ) => ChannelsOf(c)' = ChannelsOf(c)]_vars

\* C10 (as claimed): close cleanup.  When the socket of a connection has
\* closed, the connection is in no participant set and not in the registry,
\* and no history has changed.
C10_CloseCleanup ==
    [][\A c \in Conns :
          ( rs[c] # "CLOSED" /\ rs'[c] = "CLOSED" )
          => /\ ChannelsOf(c)' = {}
             /\ c \notin DOMAIN participants'
             /\ \A n \in DOMAIN channels : channels'[n].canvas = channels[n].canvas]_vars

\* The server reaches the call of ws.send() in Channel.admit for the frame it
\* handles from c.
Admits(c) ==
    /\ Handles(c)
    /\ IsStr(Get(Handled(c), "kind"), "join")
    /\ ~ParticipantsHas(c)
    /\ ChannelsGet(Get(Handled(c), "channel")) # None
    /\ ~InSeq(channels[ChannelsGet(Get(Handled(c), "channel"))].participants, c)

\* C11 (as claimed): no send after close.  The server calls send() only on a
\* socket that is open: neither the broadcast of an accepted draw nor the
\* envelope of an admission is sent on a socket that has been closed or
\* terminated.
C11_NoSendAfterClose ==
    [][\A c \in Conns :
          /\ Accepts(c)
             => \A q \in Tried(channels[participants[c]].participants, 1) : rs[q] = "OPEN"
          /\ Admits(c) => rs[c] = "OPEN"]_vars

C16_ResponsiveNeverReaped ==
    [][Sweep => \A c \in Conns : ( rs[c] = "OPEN" /\ alive[c] ) => rs'[c] = "OPEN"]_vars

\* The server hands the frame it handles from c to the catch of its handler.
Fails(c, error) == Handles(c) /\ Caught(c, Head(inbox[c])) = error

\* What a handled frame may change on the server is left as it was.
ServerUntouched ==
    /\ channels' = channels
    /\ participants' = participants
    /\ outbox' = outbox
    /\ rs' = rs
    /\ up' = up

\* C12: a schema validation failure is dropped.  A draw of a connection in a
\* channel that does not pass validation changes no history and no
\* participant set and is sent to nobody, the sender included.
C12_InvalidDrawDropped ==
    [][\A c \in Conns :
          ( Handles(c) /\ ParticipantsHas(c)
            /\ Head(inbox[c]) \in {JSONstringify(d) : d \in BadDraws} )
          => ServerUntouched]_vars

\* C12's case: the server has dropped a draw of a participant of "all", whose
\* socket is open and who has been sent its envelope and nothing else.
C12_Witness ==
    \E c \in Conns :
        /\ Member(c, "all") /\ c \in unbacked /\ inbox[c] = <<>>
        /\ channels["all"].canvas = <<>>
        /\ Len(outbox[c]) + (IF Replayed(c) THEN 1 ELSE 0) = 1

\* C13: a malformed payload is recovered locally.  A frame that is not JSON,
\* or whose JSON is null, is caught by the handler: no history, participant
\* set or registry entry changes, nothing is sent, the socket of the sender
\* stays as it is and the frames behind it stay in line.
C13_MalformedRecovered ==
    [][\A c \in Conns :
          ( Handles(c) /\ Head(inbox[c]) \in Malformed )
          => /\ ServerUntouched
             /\ caught' \in {"SyntaxError", "TypeError"}
             /\ \A d \in Conns \ {c} : inbox'[d] = inbox[d]]_vars

\* C13's case: the server has caught the malformed frame of a participant,
\* who is still one, and its next frame, a draw that is valid, is in line.
C13_Witness ==
    \E c \in Conns : \A d \in Conns \ {c} :
        /\ rs[d] = "NONE"
        /\ caught \in {"SyntaxError", "TypeError"}
        /\ Member(c, "all")
        /\ inbox[c] = <<JSONstringify(Circle(Dot))>>

\* C14: an unknown kind is a failure of one message.  An envelope whose kind
\* is neither join nor draw ends its handling with a MessageError, which is
\* caught; no history, participant set or socket changes, nothing is sent, and
\* the frames of the other connections stay in line.
C14_UnknownKindScoped ==
    [][\A c \in Conns :
          ( Handles(c) /\ Head(inbox[c]) \in UnknownKinds )
          => /\ ServerUntouched
             /\ caught' = "MessageError"
             /\ \A d \in Conns \ {c} : inbox'[d] = inbox[d]]_vars

\* C14's case: the server has caught a MessageError, and a frame of a
\* participant whose socket is open is in line.
C14_Witness ==
    \E d \in Conns :
        /\ caught = "MessageError" /\ up
        /\ Member(d, "all") /\ inbox[d] # <<>>

\* C17 (as claimed): a failing consumer does not stall or truncate a
\* broadcast.  When an accepted draw cannot be sent to a participant, whose
\* socket is not open, every participant whose socket is open is still sent
\* it, the history is still appended to and, for a clear, wiped, and the
\* failing participant's socket stays out of use.
C17_FailingConsumer ==
    [][\A c \in Conns :
          ( Accepts(c)
            /\ \E q \in Conns : /\ InSeq(channels[participants[c]].participants, q)
                                /\ SendFails(q) )
          => LET name == participants[c] IN
             /\ \A q \in Conns :
                   ( InSeq(channels[name].participants, q) /\ ~SendFails(q) )
                   => outbox'[q] = Append(outbox[q], Head(inbox[c]))
             /\ channels'[name].canvas = CanvasAfter(channels[name].canvas, Handled(c))
             /\ \A q \in Conns :
                   ( InSeq(channels[name].participants, q) /\ SendFails(q) )
                   => rs'[q] # "OPEN"]_vars

\* The keys of a signature.
SigKeys(sig) == {sig[i][1] : i \in 1 .. Len(sig)}

\* C18: the validator is closed-world.  validate_data returns true if the
\* keys of the record are the keys of the signature and every predicate of the
\* signature is true of its field, and false otherwise: when a key is missing,
\* when a predicate is false, when a key is too many.
C18_ClosedWorld ==
    outcome # "none"
    => LET sig == probe.sig
           data == probe.data
           same == Keys(data) = SigKeys(sig)
           pass == \A i \in 1 .. Len(sig) :
                      sig[i][1] \in Keys(data)
                      => validator(sig[i][2], Get(data, sig[i][1])) = "true"
       IN  outcome = IF same /\ pass THEN "true" ELSE "false"

\* C18's case: a record with every key of a signature, each passing, and one
\* key more has been turned down.
C18_Witness ==
    /\ outcome = "false"
    /\ Len(probe.sig) = 2
    /\ Keys(probe.data) = SigKeys(probe.sig) \cup {"c"}
    /\ \A i \in 1 .. 2 : validator(probe.sig[i][2], Get(probe.data, probe.sig[i][1])) = "true"

\* C19 (as claimed): the validator never raises.  The validation of a draw
\* record returns true or false, whatever the record.
C19_NeverRaises == outcome \in {"none", "true", "false"}

\* A sample as the protocol has it.
IsPenSample(v) ==
    /\ v.t = "object"
    /\ DOMAIN v.o = {"x", "y", "tool", "colour", "radius"}
    /\ v.o.x.t = "number" /\ v.o.y.t = "number"
    /\ v.o.tool \in {Str("brush"), Str("eraser")}
    /\ v.o.radius.t = "number" /\ v.o.radius.n >= 0

\* A draw envelope as the protocol has it.
IsDrawAction(d) ==
    /\ d.t = "object"
    /\ \/ /\ DOMAIN d.o = {"kind", "shape", "at"}
          /\ d.o.shape = Str("circle") /\ IsPenSample(d.o.at)
       \/ /\ DOMAIN d.o = {"kind", "shape", "from", "to"}
          /\ d.o.shape = Str("bridge") /\ IsPenSample(d.o.from) /\ IsPenSample(d.o.to)
       \/ /\ DOMAIN d.o = {"kind", "shape"}
          /\ d.o.shape = Str("clear")

\* C20: draw schema acceptance.  The validation of Channel.draw comes to true
\* for the circles with a sample at, the bridges with samples from and to and
\* the clears, with no other field, and for nothing else.
C20_DrawSchema ==
    outcome # "none" => (outcome = "true" <=> IsDrawAction(probe.data))

\* C20's case: a bridge has been accepted.
C20_Witness ==
    outcome = "true" /\ Get(probe.data, "shape") = Str("bridge")

\* C25: the history is append-only.  An accepted draw that is no clear puts
\* that action at the end of the history of the sender's channel; an accepted
\* clear wipes it or is put at its end; and nothing else, a join, a close, a
\* frame that is turned down, a sweep, changes the history of any channel.
C25_AppendOnly ==
    [][\A name \in DOMAIN channels :
          LET before == channels[name].canvas
              after == channels'[name].canvas
              here(c) == Accepts(c) /\ participants[c] = name
          IN  /\ name \in DOMAIN channels'
              /\ \A c \in Conns :
                    here(c) => IF IsClear(Handled(c))
                               THEN after \in {<<>>, Append(before, Handled(c))}
                               ELSE after = Append(before, Handled(c))
              /\ (\A c \in Conns : ~here(c)) => after = before]_vars

\* C25's case: a channel has taken two actions, and a socket has been swept
\* and another has closed.
C25_Witness ==
    /\ \E name \in DOMAIN channels : Len(channels[name].canvas) = 2
    /\ \E c, d \in Conns : rs[c] = "CLOSED" /\ missed[d] >= 1 /\ rs[d] = "OPEN"

\* C26: channels are isolated.  A draw accepted in a channel changes nothing
\* of another channel and is sent to participants of that channel only; and no
\* draw is on its way to a connection that the registry has in no channel.
C26_ChannelIsolation ==
    [][\A c \in Conns :
          /\ Accepts(c)
             => LET name == participants[c] IN
                /\ \A other \in DOMAIN channels \ {name} : channels'[other] = channels[other]
                /\ channels'[name].participants = channels[name].participants
                /\ \A q \in Conns :
                      outbox'[q] # outbox[q] => InSeq(channels[name].participants, q)
          /\ Pending(c, "draw")' # {} => c \in DOMAIN participants']_vars

\* C26's case: each of the two channels has a participant, with an open
\* socket, and a draw is on its way to the one and none to the other.
C26_Witness ==
    \E c, d \in Conns :
        /\ Member(c, "public") /\ Member(d, "all")
        /\ Pending(c, "draw") # {} /\ Pending(d, "draw") = {}
        /\ inbox[c] = <<>> /\ inbox[d] = <<>>

\* C30: the client's draw validation and the server's decide alike on every
\* draw record, and on a record that JSON carries unchanged (as every record of
\* the pen is) the server decides on the received record as the client did on
\* the sent one.
C30_ValidateIdentically ==
    outcome # Undecided
    => /\ outcome.client = outcome.server
       /\ ToJSON(probe.data) = probe.data => outcome.wire = outcome.client

\* Both have decided on a stroke of the pen, and accept it.
C30_Witness ==
    /\ probe.data \in Strokes
    /\ outcome = [client |-> "true", server |-> "true", wire |-> "true"]
\* The pixels of cv with those of region painted with paint.
Painted(cv, region, paint) == Fill(cv, region, paint).pixels

\* The region of the stroked line of width 2 r between two centres.
Line(x0, y0, x1, y1, r) ==
    IF r = 0 THEN {}
    ELSE Band(x0 * PIXEL_RATIO, y0 * PIXEL_RATIO, x1 * PIXEL_RATIO, y1 * PIXEL_RATIO,
              2 * r * PIXEL_RATIO)

Field(sample, key) == Get(sample, key).n
DiscOf(sample) ==
    Disc(Field(sample, "x") * PIXEL_RATIO, Field(sample, "y") * PIXEL_RATIO,
         Field(sample, "radius") * PIXEL_RATIO)

\* The connecting shape of two samples: the line for equal radii, the hull of
\* the two circles otherwise.
ShapeOf(from, to) ==
    IF Field(from, "radius") = Field(to, "radius")
    THEN Line(Field(from, "x"), Field(from, "y"), Field(to, "x"), Field(to, "y"),
              Field(from, "radius"))
    ELSE Hull(Field(from, "x") * PIXEL_RATIO, Field(from, "y") * PIXEL_RATIO,
              Field(from, "radius") * PIXEL_RATIO,
              Field(to, "x") * PIXEL_RATIO, Field(to, "y") * PIXEL_RATIO,
              Field(to, "radius") * PIXEL_RATIO)

IsBridge(data) == IsStr(Get(data, "shape"), "bridge")

\* C21 (as claimed): the tool-change bridge.  A valid bridge whose samples
\* differ in their tools paints the destination circle in the destination
\* colour and nothing else; one whose tools are the same paints both circles
\* and the connecting shape with the gradient from the one colour to the other.
C21_ToolChangeBridge ==
    ( IsBridge(probe.data) /\ outcome.drawn # <<>> )
    => LET from == Get(probe.data, "from")
           to == Get(probe.data, "to")
           after == outcome.drawn[1]
           gradient == LinearGradient(
               Field(from, "x") * PIXEL_RATIO, Field(from, "y") * PIXEL_RATIO,
               Get(from, "colour").s,
               Field(to, "x") * PIXEL_RATIO, Field(to, "y") * PIXEL_RATIO,
               Get(to, "colour").s)
           region == DiscOf(from) \cup DiscOf(to) \cup ShapeOf(from, to)
       IN  /\ ~after.threw
           /\ IF Get(from, "tool") # Get(to, "tool")
              THEN after.cv.pixels
                      = Painted(probe.cv, DiscOf(to), Solid(Get(to, "colour").s))
              ELSE \A p \in Pixels :
                      LET was == probe.cv.pixels[p]
                          is == after.cv.pixels[p]
                      IN  IF p \in region /\ Ink(gradient).k # "nothing"
                          THEN is # <<>> /\ is[Len(is)] = Ink(gradient)
                          ELSE is = was

\* C22 (as claimed): connect with equal radii.  The pixels afterwards are
\* those of the canvas with the line of width 2 r0 between the centres stroked
\* on it in the stroke style.
C22_EqualRadiusConnect ==
    ( outcome.connected # <<>>
      /\ Field(Get(probe.data, "from"), "radius") = Field(Get(probe.data, "to"), "radius") )
    => LET from == Get(probe.data, "from")
           to == Get(probe.data, "to")
       IN  outcome.connected[1].pixels
              = Painted(probe.cv,
                        Line(Field(from, "x"), Field(from, "y"),
                             Field(to, "x"), Field(to, "y"), Field(from, "radius")),
                        probe.cv.strokeStyle)

\* C29 (as claimed): render idempotence.  A valid action rendered twice leaves
\* the pixels that it leaves rendered once.
C29_RenderIdempotent ==
    Len(outcome.drawn) = 2
    => outcome.drawn[2].cv.pixels = outcome.drawn[1].cv.pixels
\* C23: a message given to send_message while the socket is not OPEN is not
\* transmitted.  While the socket of a client is not OPEN no frame of the
\* client is added to those on their way to the server, and no send is
\* counted for it; when the socket opens, the one frame that follows what was
\* there is the join request of the "open" listener.
C23_DroppedNotQueued ==
    [][/\ \A c \in Conns :
             /\ ( crs[c] # "OPEN" /\ crs'[c] # "OPEN" )
                => \E k \in 0 .. Len(inbox[c]) :
                      inbox'[c] = SubSeq(inbox[c], k + 1, Len(inbox[c]))
             /\ ( crs[c] # "OPEN" /\ crs'[c] = "OPEN" )
                => /\ inbox[c] = <<>>
                   /\ inbox'[c] = <<JSONstringify(Join("all"))>>
       /\ nsent' # nsent => \E c \in Conns : crs[c] = "OPEN" /\ inbox'[c] # inbox[c]]_vars

\* C23's case: a client painted and sent a stroke, its socket closed, and the
\* Clear it issued then wiped its canvas and was not sent: the stroke is the
\* only frame that was ever sent.
C23_Witness ==
    \E c \in Conns :
        /\ crs[c] = "CLOSED"
        /\ nsent = 1
        /\ Len(inbox[c]) = 2
        /\ inbox[c][2] \in {JSONstringify(d) : d \in Strokes}
        /\ canvas[c].pixels = NewCanvas.pixels
\* The canvas after every action of a list has been given to draw, in the
\* order of the list.
RECURSIVE AllApplied(_, _, _)
AllApplied(cv, actions, i) ==
    IF i > Len(actions) THEN cv
    ELSE AllApplied(draw(cv, actions[i]).cv, actions, i + 1)

\* C28 (as claimed): the replay is complete and ordered.  After a channel
\* envelope the canvas is that of a new canvas on which every action of the
\* list was painted in the order of the list, and a live draw is painted on
\* that.
C28_ReplayComplete ==
    /\ Len(outcome) >= 1
       => outcome[1].pixels
             = AllApplied(NewCanvas, Get(probe.data, "canvas").a, 1).pixels
    /\ Len(outcome) = 2 => outcome[2] = draw(outcome[1], probe.live).cv
\* The step in which the client of c sends a draw.
SendsDraw(c) ==
    /\ crs[c] = "OPEN"
    /\ Len(inbox'[c]) = Len(inbox[c]) + 1
    /\ IsFrame(inbox'[c][Len(inbox'[c])], "draw")

\* The step in which the client of c handles the oldest frame sent to it.
Receives(c) ==
    /\ crs[c] = "OPEN" /\ crs'[c] = "OPEN"
    /\ outbox[c] # <<>> /\ outbox'[c] = Tail(outbox[c])

\* C27: the local echo.  The step in which a client sends a draw leaves the
\* draw painted on its canvas; the step in which it handles a draw frame of
\* the server paints that draw, its own included; and in no other step does
\* the canvas of a client whose socket is open change, so what others draw
\* is painted when it arrives and not before.
C27_LocalEchoTwice ==
    [][\A c \in Conns :
          /\ SendsDraw(c)
             => canvas'[c] = draw(canvas[c], JSONparse(inbox'[c][Len(inbox'[c])])).cv
          /\ ( Receives(c) /\ IsFrame(Head(outbox[c]), "draw") )
             => canvas'[c] = draw(canvas[c], JSONparse(Head(outbox[c]))).cv
          /\ ( crs[c] = "OPEN" /\ ~SendsDraw(c) /\ ~Receives(c) )
             => canvas'[c] = canvas[c]]_vars

\* C27's case: of two participants of a channel one has painted a stroke of
\* its own, sent it, and painted it again when it came back; the other has it
\* still on its way and has painted nothing.
C27_Witness ==
    \E c, d \in Conns : \E name \in DOMAIN channels : \E s \in Strokes :
        /\ c # d /\ Member(c, name) /\ Member(d, name)
        /\ Replayed(c) /\ Replayed(d)
        /\ channels[name].canvas = <<s>>
        /\ Quiescent(c)
        /\ canvas[c] = draw(draw(NewCanvas, s).cv, s).cv
        /\ canvas[c].pixels # NewCanvas.pixels
        /\ outbox[d] = <<JSONstringify(s)>>
        /\ canvas[d] = NewCanvas
\* C24 (as claimed): sender convergence under local echo.  A participant all
\* of whose draws the server has accepted and sent back, and which has handled
\* every frame sent to it, shows the pixels it would show had it painted the
\* frames of the server only.
C24_SenderConvergence ==
    \A c \in Conns : \A name \in DOMAIN channels :
        ( /\ Member(c, name) /\ Replayed(c) /\ Quiescent(c)
          /\ c \notin unbacked /\ caught = "none" )
        => canvas[c].pixels = shadow[c].pixels
\* C31 (as claimed): membership bookkeeping.  A connection is in the
\* participant set of a channel exactly when the registry of the server maps
\* it to that channel.
C31_MembershipConsistent ==
    \A c \in Conns : \A name \in DOMAIN channels :
        InSeq(channels[name].participants, c)
            <=> ( ParticipantsHas(c) /\ ParticipantsGet(c) = name )
\* C32: the history holds only valid actions.  Every element of the history of
\* every channel is a draw record that the validation of the server accepts,
\* and that the validation of the client accepts when it is replayed.
C32_HistoryValid ==
    \A name \in DOMAIN channels :
        \A i \in 1 .. Len(channels[name].canvas) :
            LET action == channels[name].canvas[i] IN
            /\ IsDraw(action)
            /\ valid_data(action) = "true"
            /\ Client_valid_data(JSONparse(JSONstringify(action))) = "true"

\* C32's case: a participant has sent a draw that the server dropped and a
\* draw that it kept, and the history holds the second alone.
C32_Witness ==
    \E c \in Conns :
        /\ ParticipantsHas(c) /\ c \in unbacked
        /\ nsent = MaxSent
        /\ \A d \in Conns : inbox[d] = <<>>
        /\ channels[participants[c]].canvas = <<Circle(Dot)>>
\* C33 (as claimed): every optimistic render is backed by the server.  Every
\* draw frame in the model is one that its client painted before sending it;
\* when the server handles such a frame of a connection that is open at both
\* ends, it appends the action to the history of the connection's channel (a
\* clear then wipes it) and sends the action back to that connection.
C33_RenderBacked ==
    [][\A c \in Conns :
          ( Handles(c) /\ IsDraw(Handled(c)) /\ rs[c] = "OPEN" /\ crs[c] = "OPEN" )
          => /\ ParticipantsHas(c)
             /\ channels'[ParticipantsGet(c)].canvas
                   \in {Append(channels[ParticipantsGet(c)].canvas, Handled(c)), <<>>}
             /\ outbox'[c] = Append(outbox[c], Head(inbox[c]))]_vars
\* C34 (as claimed): a client reaches the joined state on a default server.
\* A client whose socket has opened is in the end shown the canvas (its
\* overlay is hidden by a channel envelope), unless its connection closes.
C34_ReachesJoined ==
    \A c \in Conns :
        (crs[c] = "OPEN") ~> (overlay[c] = "hidden" \/ crs[c] # "OPEN")
\* C35 (as claimed): no local effect without a send.  While the socket of a
\* client is not OPEN no step changes the canvas of the client.
C35_NoEffectWithoutSend ==
    [][\A c \in Conns : crs[c] # "OPEN" => canvas'[c] = canvas[c]]_vars
\* Context states that an earlier action may have left: that of a context
\* never drawn with, and that after a red bridge of radius 2.
LeftBehind ==
    { [fillStyle |-> Solid("black"), strokeStyle |-> Solid("black"), lineWidth |-> 1],
      [fillStyle |-> Solid("red"), strokeStyle |-> Solid("red"), lineWidth |-> 4] }

\* The canvas cv, with the same pixels, in the context state left.
WithContext(cv, left) ==
    [cv EXCEPT !.fillStyle = left.fillStyle, !.strokeStyle = left.strokeStyle,
               !.lineWidth = left.lineWidth]

\* C36 (as claimed): rendering is a function of the action and the surface.
\* The pixels after a valid action was rendered on a canvas are the pixels
\* after it was rendered on a canvas of the same pixels in any other context
\* state.
C36_ContextIndependent ==
    outcome.drawn # <<>>
    => \A left \in LeftBehind :
          draw(WithContext(probe.cv, left), probe.data).cv.pixels
             = outcome.drawn[1].cv.pixels
\* C37 (as claimed): the tangent construction is well defined for every valid
\* bridge.  For two samples of different radii that pass validation, each of
\* the two denominators of the tangent formula is not zero and each of the
\* two radicands is not negative.
C37_TangentWellDefined ==
    LET from == Get(probe.data, "from")
        to == Get(probe.data, "to")
    IN  ( /\ outcome.connected # <<>>
          /\ Client_valid_data(probe.data) = "true"
          /\ Field(from, "radius") # Field(to, "radius") )
        => TangentsAreNumbers(Field(from, "x"), Field(from, "y"), Field(from, "radius"),
                              Field(to, "x"), Field(to, "y"), Field(to, "radius"))
\* C38: only a liveness response refreshes liveness.  The step in which the
\* server handles a frame of a connection leaves every flag as it is; a flag
\* becomes true in the step that opens the connection or in the step that
\* handles its pong, and becomes false in a sweep, which sets the flag of
\* every socket of the server to false.
C38_OnlyPongRefreshes ==
    [][\A c \in Conns :
          /\ Handles(c) => alive' = alive
          /\ ( ~alive[c] /\ alive'[c] )
             => \/ rs[c] = "NONE" /\ rs'[c] = "OPEN"
                \/ /\ rs[c] = "OPEN" /\ missed'[c] = 0
                   /\ inbox' = inbox /\ channels' = channels /\ rs' = rs
          /\ ( alive[c] /\ ~alive'[c] )
             => /\ \A d \in Conns : InClients(d) => ~alive'[d]
                /\ inbox' = inbox /\ channels' = channels]_vars

\* C38's case: a participant whose flag a sweep has set to false has had a
\* draw handled and kept, and its flag is false still.
C38_Witness ==
    \E c \in Conns :
        /\ rs[c] = "OPEN" /\ ~alive[c] /\ missed[c] = 1
        /\ ParticipantsHas(c)
        /\ channels[ParticipantsGet(c)].canvas = <<Circle(Dot)>>
        /\ inbox[c] = <<>> /\ nsent = 1

\* The step in which the pen's page sends a Bridge.
EmitsBridge ==
    /\ Len(inbox'[Drawer]) = Len(inbox[Drawer]) + 1
    /\ IsBridge(JSONparse(Last(inbox'[Drawer])))

\* The position of a sample, and the sample an emitted draw ends at.
PositionOf(sample) == <<Field(sample, "x"), Field(sample, "y")>>
EndOf(data) == IF IsBridge(data) THEN Get(data, "to") ELSE Get(data, "at")

\* C39 (as claimed): strokes are contiguous.  A Bridge is emitted only after a
\* button-0 pointerdown and before the next pointerup; its from sample lies
\* where the preceding pointer sample was; and it starts where the draw the
\* page emitted before it ended: at the Circle of the stroke, or at the end of
\* the previous Bridge.
C39_StrokesContiguous ==
    [][EmitsBridge =>
          LET from == Get(JSONparse(Last(inbox'[Drawer])), "from") IN
          /\ pen.stroke
          /\ PositionOf(from) = pen.at
          /\ inbox[Drawer] # <<>>
          /\ IsDraw(JSONparse(Last(inbox[Drawer])))
          /\ PositionOf(EndOf(JSONparse(Last(inbox[Drawer])))) = PositionOf(from)]_vars

\* C40 (as claimed): send_message is total.  Whatever the state of the page,
\* the one with no socket included, no call of send_message has raised.
C40_SendMessageTotal == ~pen.raised
====
